---- MODULE Spec2Model ----
(***************************************************************************)
(* Three-tier telemetry system: sensor nodes -> edge ("drone") server ->   *)
(* central server.                                                         *)
(*                                                                         *)
(*   phase-2/drone_server.py   EdgeProcessor, BatteryManager, DroneServer  *)
(*   term-project-after-rubric/central_server.py   ServerGUI, CentralServer*)
(*   phase-2/central_server.py                     ServerGUI, CentralServer*)
(*                                                                         *)
(* Each component is a group of variables with its own actions; a          *)
(* specification per component (SpecEdge, SpecBattery, ...) runs that      *)
(* component and leaves the other groups unchanged.                        *)
(***************************************************************************)
EXTENDS Integers, Sequences, FiniteSets, TLC

(***************************************************************************)
(* Generic helpers: Python dict and list operations.                       *)
(***************************************************************************)
EmptyDict == [k \in {} |-> 0]

DictPut(d, k, v) == [x \in (DOMAIN d) \cup {k} |-> IF x = k THEN v ELSE d[x]]

DictDel(d, k) == [x \in (DOMAIN d) \ {k} |-> d[x]]

DictGet(d, k, default) == IF k \in DOMAIN d THEN d[k] ELSE default

RECURSIVE Sum(_)
Sum(xs) == IF xs = <<>> THEN 0 ELSE Head(xs) + Sum(Tail(xs))

\* xs[-n:] of Python
LastN(xs, n) == IF Len(xs) <= n THEN xs ELSE SubSeq(xs, Len(xs) - n + 1, Len(xs))

\* xs[i:] of Python, i counted from 0
From(xs, i) == IF i >= Len(xs) THEN <<>> ELSE SubSeq(xs, i + 1, Len(xs))

Range(xs) == {xs[i] : i \in 1..Len(xs)}

(***************************************************************************)
(* Bounds of the model.                                                    *)
(***************************************************************************)
\* number of update_readings calls in a behaviour
MaxReadings == 2

\* number of readings of a stream
MaxStream == 11

SensorIds == {"s1", "s2"}

\* temperature and humidity samples below, inside and above the thresholds
TempVals == {5, 20, 35}
HumVals == {15, 50, 90}

Timestamps == {1, 2}

(***************************************************************************)
(* EdgeProcessor (phase-2/drone_server.py)                                 *)
(***************************************************************************)
temp_threshold_high == 30
temp_threshold_low == 10
humidity_threshold_high == 80
humidity_threshold_low == 20
AnomalyCap == 10
window_size == 10

VARIABLES
    readings,           \* EdgeProcessor.readings: sensor_id -> list of readings
    previous_readings,  \* EdgeProcessor.previous_readings
    anomalies,          \* EdgeProcessor.anomalies
    averages,           \* value returned by the last compute_averages call
    edgeOp,             \* the EdgeProcessor call that produced this state
    sinceLast,          \* history: readings added since the last compute_averages
    counted,            \* history: sinceLast as it was when compute_averages ran
    lastReading,        \* history: argument of the last update_readings
    prevAnomalies       \* history: anomalies before the last update_readings

edgeVars == <<readings, previous_readings, anomalies, averages, edgeOp,
              sinceLast, counted, lastReading, prevAnomalies>>

SensorData == [sensor_id : SensorIds, timestamp : Timestamps,
               temperature : TempVals, humidity : HumVals]

\* An average is the exact fraction sum/len, kept as <<sum, len>>; the
\* value 0 returned for an empty list is <<0, 1>>.
Mean(xs) == IF xs = <<>> THEN <<0, 1>> ELSE <<Sum(xs), Len(xs)>>

FracEq(a, b) == a[1] * b[2] = b[1] * a[2]

MkAnomaly(sensor_data, issue, value) ==
    [sensor_id |-> sensor_data.sensor_id, issue |-> issue, value |-> value,
     timestamp |-> sensor_data.timestamp]

\* DetectAnomaly with the humidity branches tested before the temperature ones
DetectAnomalyHumidityFirst(sensor_data) ==
    IF sensor_data.humidity > humidity_threshold_high
    THEN <<MkAnomaly(sensor_data, "humidity_too_high", sensor_data.humidity)>>
    ELSE IF sensor_data.humidity < humidity_threshold_low
    THEN <<MkAnomaly(sensor_data, "humidity_too_low", sensor_data.humidity)>>
    ELSE IF sensor_data.temperature > temp_threshold_high
    THEN <<MkAnomaly(sensor_data, "temperature_too_high", sensor_data.temperature)>>
    ELSE IF sensor_data.temperature < temp_threshold_low
    THEN <<MkAnomaly(sensor_data, "temperature_too_low", sensor_data.temperature)>>
    ELSE <<>>

\* the if/elif chain of _check_anomalies: <<>> when no threshold is breached,
\* otherwise the one anomaly of the first matching branch
DetectAnomaly(sensor_data) ==
    IF sensor_data.temperature > temp_threshold_high
    THEN <<MkAnomaly(sensor_data, "temperature_too_high", sensor_data.temperature)>>
    ELSE IF sensor_data.temperature < temp_threshold_low
    THEN <<MkAnomaly(sensor_data, "temperature_too_low", sensor_data.temperature)>>
    ELSE IF sensor_data.humidity > humidity_threshold_high
    THEN <<MkAnomaly(sensor_data, "humidity_too_high", sensor_data.humidity)>>
    ELSE IF sensor_data.humidity < humidity_threshold_low
    THEN <<MkAnomaly(sensor_data, "humidity_too_low", sensor_data.humidity)>>
    ELSE <<>>

\* the search for an existing anomaly finding nothing
AnomalyExistsNever(anoms, anomaly) == FALSE

\* _check_anomalies: the loop that looks for the same anomaly in the list
AnomalyExists(anoms, anomaly) ==
    \E i \in 1..Len(anoms) :
        /\ anoms[i].sensor_id = anomaly.sensor_id
        /\ anoms[i].issue = anomaly.issue
        /\ anoms[i].value = anomaly.value
        /\ anoms[i].timestamp = anomaly.timestamp

\* the trimming of the list keeping its first entries
KeepOldest(anoms) == SubSeq(anoms, 1, AnomalyCap)

\* _check_anomalies: self.anomalies[-10:]
KeepRecent(anoms) == LastN(anoms, AnomalyCap)

\* _check_anomalies: the new value of self.anomalies
CheckAnomalies(anoms, sensor_data) ==
    LET found == DetectAnomaly(sensor_data) IN
    IF found = <<>> THEN anoms
    ELSE LET anomaly == found[1]
             appended == IF AnomalyExists(anoms, anomaly) THEN anoms
                         ELSE Append(anoms, anomaly)
         IN  IF Len(appended) > AnomalyCap THEN KeepRecent(appended)
             ELSE appended

\* NewReadings without the previous_readings mark: the whole stored list
NewReadingsWholeList(cur, prev, sensor_id) == cur[sensor_id]

\* the readings of one sensor that compute_averages treats as new
NewReadings(cur, prev, sensor_id) ==
    From(cur[sensor_id], Len(DictGet(prev, sensor_id, <<>>)))

RECURSIVE CollectNew(_, _, _)
CollectNew(cur, prev, ids) ==
    IF ids = {} THEN <<>>
    ELSE LET s == CHOOSE x \in ids : TRUE
         IN  NewReadings(cur, prev, s) \o CollectNew(cur, prev, ids \ {s})

Temps(rs) == [i \in 1..Len(rs) |-> rs[i].temperature]
Humidities(rs) == [i \in 1..Len(rs) |-> rs[i].humidity]

\* the pair returned by compute_averages
ComputeAveragesResult(cur, prev) ==
    LET new == CollectNew(cur, prev, DOMAIN cur)
    IN  <<Mean(Temps(new)), Mean(Humidities(new))>>

TotalReadings ==
    LET lens == [s \in DOMAIN readings |-> Len(readings[s])]
        RECURSIVE Tot(_)
        Tot(ids) == IF ids = {} THEN 0
                    ELSE LET s == CHOOSE x \in ids : TRUE IN lens[s] + Tot(ids \ {s})
    IN  Tot(DOMAIN readings)

EdgeInit ==
    /\ readings = EmptyDict
    /\ previous_readings = EmptyDict
    /\ anomalies = <<>>
    /\ averages = <<Mean(<<>>), Mean(<<>>)>>
    /\ edgeOp = "init"
    /\ sinceLast = <<>>
    /\ counted = <<>>
    /\ lastReading = <<>>
    /\ prevAnomalies = <<>>

\* EdgeProcessor.update_readings(sensor_data), the whole body under self.lock
UpdateReadingsBody(sensor_data) ==
    /\ LET sensor_id == sensor_data.sensor_id
           old == DictGet(readings, sensor_id, <<>>)
       IN  readings' = DictPut(readings, sensor_id, Append(old, sensor_data))
    /\ anomalies' = CheckAnomalies(anomalies, sensor_data)
    /\ prevAnomalies' = anomalies
    /\ lastReading' = <<sensor_data>>
    /\ sinceLast' = Append(sinceLast, sensor_data)
    /\ edgeOp' = "update_readings"
    /\ UNCHANGED <<previous_readings, averages, counted>>

\* update_readings called at most MaxReadings times in a behaviour
update_readings(sensor_data) ==
    /\ TotalReadings < MaxReadings
    /\ UpdateReadingsBody(sensor_data)

\* the readings of a stream: the n-th reading is stamped n, comes from either
\* sensor and is hot on s1 or s2 or within the thresholds on s1
StreamData(n) ==
    {[sensor_id |-> "s1", timestamp |-> n, temperature |-> 35, humidity |-> 50],
     [sensor_id |-> "s1", timestamp |-> n, temperature |-> 20, humidity |-> 50],
     [sensor_id |-> "s2", timestamp |-> n, temperature |-> 35, humidity |-> 50]}

\* update_readings called with the next reading of a stream
StreamReading ==
    /\ TotalReadings < MaxStream
    /\ \E sensor_data \in StreamData(TotalReadings + 1) :
           UpdateReadingsBody(sensor_data)

\* EdgeProcessor.compute_averages(), the whole body under self.lock
compute_averages ==
    /\ averages' = ComputeAveragesResult(readings, previous_readings)
    /\ previous_readings' = readings
    /\ counted' = sinceLast
    /\ sinceLast' = <<>>
    /\ edgeOp' = "compute_averages"
    /\ UNCHANGED <<readings, anomalies, lastReading, prevAnomalies>>

UpdateReadingsStep == \E sensor_data \in SensorData : update_readings(sensor_data)

(***************************************************************************)
(* Clock: time.time(), in seconds.  It advances in steps of TickSeconds.   *)
(***************************************************************************)
MaxTime == 30
MaxCycleTime == 50
TickSeconds == 5

VARIABLE now

\* Optional values: None is <<>>, a value v is <<v>>
None == <<>>
Some(v) == <<v>>

(***************************************************************************)
(* BatteryManager (phase-2/drone_server.py).  The instance checked is the  *)
(* one of the power-state test: BatteryManager(initial_level=25,           *)
(* threshold=20, consumption_rate=1, charging_rate=4, time_to_return=10).  *)
(***************************************************************************)
initial_level == 25
initial_threshold == 20
consumption_rate == 1
charging_rate == 4
time_to_return == 10
ChargeTarget == 80
ThresholdMin == 5
ThresholdMax == 50

\* arguments tried for set_threshold: below, at and above the accepted range
ThresholdInputs == {4, 5, 20, 50, 51}

VARIABLES
    level,                  \* BatteryManager.level
    threshold,              \* BatteryManager.threshold
    returning_to_base,      \* BatteryManager.returning_to_base
    charging,               \* BatteryManager.charging
    returning_start_time,   \* None or a time
    charging_start_time,    \* None or a time
    last_charge_time,       \* None when the attribute does not exist
    charge_start_level,     \* BatteryManager.charge_start_level
    battOp,                 \* the BatteryManager call that produced this state
    battArg,                \* None or the argument that call was given
    battResult              \* value returned by that call

battVars == <<level, threshold, returning_to_base, charging, returning_start_time,
              charging_start_time, last_charge_time, charge_start_level,
              battOp, battArg, battResult>>

Max(a, b) == IF a >= b THEN a ELSE b
Min(a, b) == IF a <= b THEN a ELSE b

\* the mode of the power state machine, derived from the two flags
ModeOf(rtb, chg) ==
    IF chg THEN "Charging" ELSE IF rtb THEN "Returning" ELSE "Normal"

Mode == ModeOf(returning_to_base, charging)

\* BatteryManager.__init__ with the given initial_level
BatteryInitWith(l) ==
    /\ level = l
    /\ threshold = initial_threshold
    /\ returning_to_base = FALSE
    /\ charging = FALSE
    /\ returning_start_time = None
    /\ charging_start_time = None
    /\ last_charge_time = None
    /\ charge_start_level = 0
    /\ battOp = "init"
    /\ battArg = None
    /\ battResult = FALSE

BatteryInit == BatteryInitWith(initial_level)

\* initial levels tried besides initial_level: empty and full (the default)
LevelInputs == {0, initial_level, 100}

\* the drained level without the floor at 0
DrainedNoFloor(l) == l - consumption_rate

\* consume(): the level after one drain step
Drained(l) == Max(0, l - consumption_rate)

\* the low-battery test accepting a level equal to the threshold
BelowThresholdOrEqual(l, t) == l <= t

\* consume(): the low-battery test
BelowThreshold(l, t) == l < t

\* BatteryManager.consume(): the state change; the returned flag is battResult'
consume ==
    /\ battOp' = "consume"
    /\ battArg' = None
    /\ IF ~charging /\ ~returning_to_base
       THEN LET drained == Drained(level) IN
            /\ level' = drained
            /\ IF BelowThreshold(drained, threshold)
               THEN /\ returning_to_base' = TRUE
                    /\ returning_start_time' = Some(now)
                    /\ battResult' = TRUE
               ELSE /\ battResult' = FALSE
                    /\ UNCHANGED <<returning_to_base, returning_start_time>>
       ELSE /\ battResult' = FALSE
            /\ UNCHANGED <<level, returning_to_base, returning_start_time>>
    /\ UNCHANGED <<threshold, charging, charging_start_time, last_charge_time,
                   charge_start_level>>

\* the flags left by a charge() call that ends the charge, with
\* returning_to_base forgotten
ResumedFlagsStillReturning == [returning_to_base |-> TRUE, charging |-> FALSE]

\* the flags charge() sets when the charge target is reached
ResumedFlags == [returning_to_base |-> FALSE, charging |-> FALSE]

\* the arrival test without the transit time
ChargeArrivalAtOnce ==
    returning_to_base /\ ~charging /\ returning_start_time # None

\* charge(), first branch: returning, not yet charging, start time recorded
ChargeArrival ==
    /\ returning_to_base /\ ~charging /\ returning_start_time # None
    /\ now - returning_start_time[1] >= time_to_return

\* the level after a charging step that forgets the level reached so far
ChargedFromZero(l, time_elapsed) == Min(ChargeTarget, time_elapsed * charging_rate)

\* charge(): the level after a charging step
Charged(l, time_elapsed) == Min(ChargeTarget, l + time_elapsed * charging_rate)

\* last_charge_time left as the charging step set it
LastChargeTimeKept == Some(now)

\* charge(): last_charge_time after the delattr that ends the charge
LastChargeTimeCleared == None

\* BatteryManager.charge()
charge ==
    /\ battOp' = "charge"
    /\ battArg' = None
    /\ battResult' = FALSE
    /\ IF ChargeArrival
       THEN /\ charging' = TRUE
            /\ charging_start_time' = Some(now)
            /\ last_charge_time' = IF last_charge_time = None THEN Some(now)
                                   ELSE last_charge_time
            /\ charge_start_level' = level
            /\ UNCHANGED <<level, returning_to_base, returning_start_time>>
       ELSE IF charging /\ level < ChargeTarget
       THEN LET last == IF last_charge_time = None THEN now ELSE last_charge_time[1]
                time_elapsed == now - last
                charged == Charged(level, time_elapsed)
            IN  /\ level' = charged
                /\ IF charged >= ChargeTarget
                   THEN /\ returning_to_base' = ResumedFlags.returning_to_base
                        /\ charging' = ResumedFlags.charging
                        /\ returning_start_time' = None
                        /\ charging_start_time' = None
                        /\ charge_start_level' = 0
                        /\ last_charge_time' = LastChargeTimeCleared
                   ELSE /\ last_charge_time' = Some(now)
                        /\ UNCHANGED <<returning_to_base, charging,
                                       returning_start_time, charging_start_time,
                                       charge_start_level>>
       ELSE UNCHANGED <<level, returning_to_base, charging, returning_start_time,
                        charging_start_time, last_charge_time, charge_start_level>>
    /\ UNCHANGED threshold

\* the flags and level reported by check_status()
StatusNow ==
    [level |-> level, returning_to_base |-> returning_to_base, charging |-> charging]

\* exact fractions <<numerator, denominator>> with a positive denominator
Frac(n, d) == <<n, d>>
FracLeq(a, b) == a[1] * b[2] <= b[1] * a[2]
FracMin(a, b) == IF FracLeq(a, b) THEN a ELSE b
FracMax(a, b) == IF FracLeq(a, b) THEN b ELSE a

\* the four optional keys of the status dict, all set to the given values
WithProgress(status, rp, rt, cp, ct) ==
    [status EXCEPT !.return_progress = rp, !.return_time_left = rt,
                   !.charge_progress = cp, !.charge_time_left = ct]

\* the dict built by check_status(): the three base keys, then the two
\* if-statements in order; a key that was never set is None.  Times are
\* offsets from a non-zero epoch, so a recorded start time is truthy.
StatusReport ==
    LET base == [level |-> level, returning_to_base |-> returning_to_base,
                 charging |-> charging,
                 return_progress |-> None, return_time_left |-> None,
                 charge_progress |-> None, charge_time_left |-> None]
        afterReturning ==
            IF returning_to_base /\ returning_start_time # None /\ ~charging
            THEN LET elapsed == now - returning_start_time[1]
                 IN  WithProgress(base,
                        Some(FracMin(Frac(100, 1), Frac(elapsed * 100, time_to_return))),
                        Some(FracMax(Frac(0, 1), Frac(time_to_return - elapsed, 1))),
                        Some(Frac(0, 1)), Some(Frac(0, 1)))
            ELSE base
        percent_needed_total == ChargeTarget - charge_start_level
        percent_gained_so_far == level - charge_start_level
        percent_remaining_to_80 == ChargeTarget - level
    IN  IF charging /\ charging_start_time # None
        THEN IF percent_needed_total > 0
             THEN [afterReturning EXCEPT
                     !.charge_progress =
                         Some(FracMin(Frac(100, 1),
                                      Frac(percent_gained_so_far * 100, percent_needed_total))),
                     !.charge_time_left =
                         Some(FracMax(Frac(0, 1),
                                      Frac(percent_remaining_to_80, charging_rate)))]
             ELSE [afterReturning EXCEPT !.charge_progress = Some(Frac(100, 1)),
                                         !.charge_time_left = Some(Frac(0, 1))]
        ELSE IF charging /\ charging_start_time = None
        THEN [afterReturning EXCEPT !.charge_progress = Some(Frac(0, 1)),
                                    !.charge_time_left = Some(Frac(0, 1))]
        ELSE WithProgress(afterReturning, Some(Frac(0, 1)), Some(Frac(0, 1)),
                          Some(Frac(0, 1)), Some(Frac(0, 1)))

\* BatteryManager.check_status(): reads only
check_status ==
    /\ battOp' = "check_status"
    /\ battArg' = None
    /\ battResult' = StatusReport
    /\ UNCHANGED <<level, threshold, returning_to_base, charging,
                   returning_start_time, charging_start_time, last_charge_time,
                   charge_start_level>>

\* the range test with both bounds excluded
ThresholdAcceptedExclusive(new_threshold) ==
    ThresholdMin < new_threshold /\ new_threshold < ThresholdMax

\* set_threshold: the validation 5 <= new_threshold <= 50
ThresholdAccepted(new_threshold) ==
    ThresholdMin <= new_threshold /\ new_threshold <= ThresholdMax

\* BatteryManager.set_threshold(new_threshold); the else branch only prints
set_threshold(new_threshold) ==
    /\ battOp' = "set_threshold"
    /\ battArg' = Some(new_threshold)
    /\ battResult' = FALSE
    /\ threshold' = IF ThresholdAccepted(new_threshold)
                    THEN new_threshold ELSE threshold
    /\ UNCHANGED <<level, returning_to_base, charging, returning_start_time,
                   charging_start_time, last_charge_time, charge_start_level>>

SetThresholdStep == \E n \in ThresholdInputs : set_threshold(n)

\* time passes
Tick ==
    /\ now + TickSeconds <= MaxTime
    /\ now' = now + TickSeconds

\* time passes, long enough for a second return to base
CycleTick ==
    /\ now + TickSeconds <= MaxCycleTime
    /\ now' = now + TickSeconds

(***************************************************************************)
(* DroneServer (phase-2/drone_server.py): accept loop, one handler thread  *)
(* per sensor connection, queue consumer and battery loop.                 *)
(***************************************************************************)
\* the sensor connections made in a behaviour; a connection is named by its
\* remote address and its socket carries the same name
SensorAddrs == {"a1", "a2"}

\* battery loop iterations in a behaviour
MaxBatteryLoops == 8

\* readings delivered by the sensors in a behaviour of the edge server
MaxSensorMsgs == 1

QueueMaxSize == 100

\* the sensor behind a connection
SensorOf(addr) == IF addr = "a1" THEN "s1" ELSE "s2"

\* what the sensor behind a connection sends: a hot reading
SampleReadings(addr) ==
    {r \in SensorData : /\ r.sensor_id = SensorOf(addr)
                        /\ r.timestamp = 1
                        /\ r.humidity = 50
                        /\ r.temperature = 35}

VARIABLES
    active_connections,   \* DroneServer.active_connections: addr -> socket
    node_to_addr,         \* ConnectionManager.node_to_addr
    data_queue,           \* DroneServer.data_queue
    sock_closed,          \* sockets on which close() was called
    hpc,                  \* position of the handler thread of each connection
    h_sensor_id,          \* local sensor_id of each handler
    ppc,                  \* position of _process_data
    bpc,                  \* position of _manage_battery in its iteration
    last_state,           \* local last_state of _manage_battery
    battery_status,       \* local battery_status of _manage_battery
    loops,                \* iterations of _manage_battery completed
    acceptMode,           \* history: the mode when the accept loop checked
    justReturned,         \* history: consume() returned True in this iteration
    evicted               \* history: sockets closed by the battery loop

droneVars == <<active_connections, node_to_addr, data_queue, sock_closed, hpc,
               h_sensor_id, ppc, bpc, last_state, battery_status, loops,
               acceptMode, justReturned, evicted>>

DroneInit ==
    /\ active_connections = EmptyDict
    /\ node_to_addr = EmptyDict
    /\ data_queue = <<>>
    /\ sock_closed = {}
    /\ hpc = [a \in SensorAddrs |-> "unconnected"]
    /\ h_sensor_id = [a \in SensorAddrs |-> None]
    /\ ppc = "check"
    /\ bpc = "drain"
    /\ last_state = [returning_to_base |-> FALSE, charging |-> FALSE]
    /\ battery_status = [level |-> initial_level, returning_to_base |-> FALSE,
                         charging |-> FALSE]
    /\ loops = 0
    /\ acceptMode = [a \in SensorAddrs |-> "none"]
    /\ justReturned = FALSE
    /\ evicted = {}

\* the accept loop's test with the charging flag in place of returning_to_base
RefusesOnCharging(status) == status.charging

\* _start_server: the accept loop refuses the connection on this test
Refuses(status) == status.returning_to_base

\* _start_server, one accepted connection: check_status(), then either
\* close the socket or start the handler thread
Accept(addr) ==
    /\ hpc[addr] = "unconnected"
    /\ acceptMode' = [acceptMode EXCEPT ![addr] = Mode]
    /\ IF Refuses(StatusNow)
       THEN /\ sock_closed' = sock_closed \cup {addr}
            /\ hpc' = [hpc EXCEPT ![addr] = "rejected"]
       ELSE /\ hpc' = [hpc EXCEPT ![addr] = "spawned"]
            /\ UNCHANGED sock_closed
    /\ UNCHANGED <<active_connections, node_to_addr, data_queue, h_sensor_id, ppc,
                   bpc, last_state, battery_status, loops, justReturned, evicted>>

\* _handle_client: registration under connection_lock
HandlerRegister(addr) ==
    /\ hpc[addr] = "spawned"
    /\ active_connections' = DictPut(active_connections, addr, addr)
    /\ hpc' = [hpc EXCEPT ![addr] = "loop"]
    /\ UNCHANGED <<node_to_addr, data_queue, sock_closed, h_sensor_id, ppc, bpc,
                   last_state, battery_status, loops, justReturned,
                   evicted, acceptMode>>

\* _handle_client: top of the loop, the battery check before recv
HandlerCheckBattery(addr) ==
    /\ hpc[addr] = "loop"
    /\ hpc' = [hpc EXCEPT ![addr] = IF StatusNow.returning_to_base
                                    THEN "cleanup" ELSE "recv"]
    /\ UNCHANGED <<active_connections, node_to_addr, data_queue, sock_closed,
                   h_sensor_id, ppc, bpc, last_state, battery_status, loops,
                   justReturned, evicted, acceptMode>>

\* a put on the full queue that makes room by dropping the oldest reading
QueuePutNowaitDropOldest(queue, item) ==
    IF Len(queue) < QueueMaxSize THEN Append(queue, item)
    ELSE Append(Tail(queue), item)

\* data_queue.put(sensor_data, block=False) with Full caught: what the queue
\* holds afterwards
QueuePutNowait(queue, item) ==
    IF Len(queue) < QueueMaxSize THEN Append(queue, item) ELSE queue

\* _handle_client: recv returned one line of JSON; register_node, then
\* put the reading on the queue unless it is full
HandlerRecvDataBody(addr, sensor_data) ==
    /\ hpc[addr] = "recv"
    /\ addr \notin sock_closed
    /\ LET current_sensor_id == sensor_data.sensor_id
           renew == h_sensor_id[addr] = None \/ h_sensor_id[addr] # Some(current_sensor_id)
       IN  /\ h_sensor_id' = [h_sensor_id EXCEPT ![addr] =
                                 IF renew THEN Some(current_sensor_id) ELSE @]
           /\ node_to_addr' = IF renew THEN DictPut(node_to_addr, current_sensor_id, addr)
                              ELSE node_to_addr
    /\ data_queue' = QueuePutNowait(data_queue, sensor_data)
    /\ hpc' = [hpc EXCEPT ![addr] = "loop"]
    /\ UNCHANGED <<active_connections, sock_closed, ppc, bpc, last_state,
                   battery_status, loops, justReturned, evicted, acceptMode>>

\* the same, for the bounded number of readings of a behaviour
HandlerRecvData(addr, sensor_data) ==
    /\ TotalReadings + Len(data_queue) < MaxSensorMsgs
    /\ HandlerRecvDataBody(addr, sensor_data)

\* _handle_client: recv returned no data, timed out or raised (the peer
\* closed or reset the connection, or the socket was closed under the handler)
HandlerRecvFail(addr) ==
    /\ hpc[addr] = "recv"
    /\ hpc' = [hpc EXCEPT ![addr] = "cleanup"]
    /\ UNCHANGED <<active_connections, node_to_addr, data_queue, sock_closed,
                   h_sensor_id, ppc, bpc, last_state, battery_status, loops,
                   justReturned, evicted, acceptMode>>

\* _handle_client: the finally block
HandlerCleanup(addr) ==
    /\ hpc[addr] = "cleanup"
    /\ sock_closed' = sock_closed \cup {addr}
    /\ active_connections' = IF addr \in DOMAIN active_connections
                             THEN DictDel(active_connections, addr)
                             ELSE active_connections
    /\ hpc' = [hpc EXCEPT ![addr] = "exited"]
    /\ UNCHANGED <<node_to_addr, data_queue, h_sensor_id, ppc, bpc, last_state,
                   battery_status, loops, justReturned, evicted, acceptMode>>

\* _process_data: the battery check at the top of the loop
ProcessCheck ==
    /\ ppc = "check"
    /\ ppc' = IF StatusNow.returning_to_base THEN "check" ELSE "get"
    /\ UNCHANGED <<edgeVars, battVars, active_connections, node_to_addr, data_queue,
                   sock_closed, hpc, h_sensor_id, bpc, last_state, battery_status,
                   loops, justReturned, evicted, acceptMode>>

\* _process_data: data_queue.get(timeout=1) and update_readings
ProcessGet ==
    /\ ppc = "get"
    /\ ppc' = "check"
    /\ IF data_queue = <<>>
       THEN UNCHANGED <<edgeVars, data_queue>>
       ELSE /\ update_readings(Head(data_queue))
            /\ data_queue' = Tail(data_queue)
    /\ UNCHANGED <<battVars, active_connections, node_to_addr, sock_closed, hpc,
                   h_sensor_id, bpc, last_state, battery_status, loops, justReturned, evicted, acceptMode>>

\* the choice of the call made on the charging flag
CallsChargeWhenCharging(state) == state.charging

\* _manage_battery: the test that chooses charge() over consume()
CallsCharge(state) == state.returning_to_base

\* _manage_battery: charge() or consume(), chosen by last_state
BatteryLoopDrainBody ==
    /\ bpc = "drain"
    /\ IF CallsCharge(last_state)
       THEN charge /\ justReturned' = FALSE
       ELSE consume /\ justReturned' = battResult'
    /\ bpc' = "status"
    /\ UNCHANGED <<active_connections, node_to_addr, data_queue, sock_closed, hpc,
                   h_sensor_id, ppc, last_state, battery_status, loops,
                   evicted, acceptMode>>

\* the same, for the bounded number of iterations of a behaviour
BatteryLoopDrain ==
    /\ loops < MaxBatteryLoops
    /\ BatteryLoopDrainBody

\* _manage_battery: battery_status = check_status()
BatteryLoopStatus ==
    /\ bpc = "status"
    /\ battery_status' = StatusNow
    /\ bpc' = "evict"
    /\ UNCHANGED <<active_connections, node_to_addr, data_queue, sock_closed, hpc,
                   h_sensor_id, ppc, last_state, loops, justReturned,
                   evicted, acceptMode>>

\* the eviction step leaving the closed sockets in the map
AfterEvictionNotCleared(conns) == conns

\* _manage_battery: what active_connections.clear() leaves
AfterEviction(conns) == EmptyDict

\* _manage_battery: close every connection on the change to returning,
\* then remember the flags for the next iteration
BatteryLoopEvict ==
    /\ bpc = "evict"
    /\ IF battery_status.returning_to_base /\ ~last_state.returning_to_base
       THEN /\ sock_closed' = sock_closed \cup {active_connections[a] : a \in DOMAIN active_connections}
            /\ evicted' = evicted \cup {active_connections[a] : a \in DOMAIN active_connections}
            /\ active_connections' = AfterEviction(active_connections)
       ELSE UNCHANGED <<sock_closed, evicted, active_connections>>
    /\ last_state' = [returning_to_base |-> battery_status.returning_to_base,
                      charging |-> battery_status.charging]
    /\ loops' = loops + 1
    /\ bpc' = "drain"
    /\ UNCHANGED <<node_to_addr, data_queue, hpc, h_sensor_id, ppc, battery_status,
                   justReturned, acceptMode>>

(***************************************************************************)
(* Central server (term-project-after-rubric/central_server.py):           *)
(* CentralServer accept loop, handlers and connection monitor, and the     *)
(* data side of ServerGUI (drone_statuses, anomalies, last_anomaly_report).*)
(***************************************************************************)
MaxCentralTime == 60
timeout_seconds == 45
cleanup_interval == 15
LowBattery == 20
CentralAnomalyCap == 1000

\* the connections made to the central server in a behaviour
CentralAddrs == {"c1", "c2"}

DroneIds == {"d1", "d2"}

\* Python's None where a drone id is expected
NoDrone == "None"

VARIABLES
    c_active_connections, \* CentralServer.active_connections, in insertion
                          \* order: records addr, connection, last_active, drone_id
    c_sock_closed,        \* sockets on which close() was called
    chpc,                 \* position of the handler thread of each connection
    ch_drone_id,          \* local drone_id of each handler
    ch_line,              \* the decoded line a handler is about to process
    drone_statuses,       \* ServerGUI.drone_statuses: drone_id -> status
    c_anomalies,          \* ServerGUI.anomalies
    last_anomaly_report,  \* ServerGUI.last_anomaly_report
    forwarded,            \* entries handed to _update_anomaly_display
    nextSweep,            \* time at which the monitor's sleep ends
    handed                \* history: per drone, the lists given to add_anomalies

centralVars == <<c_active_connections, c_sock_closed, chpc, ch_drone_id, ch_line,
                 drone_statuses, c_anomalies, last_anomaly_report, forwarded,
                 nextSweep, handed>>

CentralInit ==
    /\ c_active_connections = <<>>
    /\ c_sock_closed = {}
    /\ chpc = [a \in CentralAddrs |-> "unconnected"]
    /\ ch_drone_id = [a \in CentralAddrs |-> NoDrone]
    /\ ch_line = [a \in CentralAddrs |-> None]
    /\ drone_statuses = EmptyDict
    /\ c_anomalies = <<>>
    /\ last_anomaly_report = EmptyDict
    /\ forwarded = <<>>
    /\ nextSweep = cleanup_interval
    /\ handed = EmptyDict

\* active_connections as an ordered dict
HasAddr(conns, addr) == \E i \in 1..Len(conns) : conns[i].addr = addr

DelAddr(conns, addr) == SelectSeq(conns, LAMBDA rec : rec.addr # addr)

SetField(conns, addr, field, value) ==
    [i \in 1..Len(conns) |->
        IF conns[i].addr = addr THEN [conns[i] EXCEPT ![field] = value] ELSE conns[i]]

\* add_data_entry: the status recorded for the drone of a report; the
\* statuses reports carry here are normal, charging and returning_to_base
StatusOfReport(report) ==
    LET raw == report.status
        named == IF raw = "returning_to_base" THEN "Returning To Base"
                 ELSE IF raw = "charging" THEN "Charging"
                 ELSE raw
    IN  IF report.battery_level < LowBattery
           /\ named \notin {"Returning To Base", "Charging"}
        THEN "Returning To Base" ELSE named

\* anomaly.copy() with the drone_id key added
AnomalyEntry(anomaly, drone_id) ==
    [k \in (DOMAIN anomaly) \cup {"drone_id"} |->
        IF k = "drone_id" THEN drone_id ELSE anomaly[k]]

AnomalyKey(anomaly) == <<anomaly.sensor_id, anomaly.issue>>

\* the duplicate test comparing the key alone
IsNewOrChangedKeyOnly(report_of_drone, anomaly) ==
    AnomalyKey(anomaly) \notin DOMAIN report_of_drone

\* add_anomalies: the test deciding whether an anomaly is appended
IsNewOrChanged(report_of_drone, anomaly) ==
    \/ AnomalyKey(anomaly) \notin DOMAIN report_of_drone
    \/ report_of_drone[AnomalyKey(anomaly)] # anomaly.value

\* ServerGUI.add_anomalies(drone_id, anomalies) as a function of the three
\* fields it touches.  The test and the append stand after the for loop, so
\* they see the variables as the last pass of the loop left them: only the
\* last anomaly of the list is examined.
AddAnomalies(st, drone_id, anoms) ==
    IF anoms = <<>> THEN st
    ELSE LET lar0 == IF drone_id \in DOMAIN st.last_anomaly_report
                     THEN st.last_anomaly_report
                     ELSE DictPut(st.last_anomaly_report, drone_id, EmptyDict)
             anomaly == anoms[Len(anoms)]
         IN  IF IsNewOrChanged(lar0[drone_id], anomaly)
             THEN LET anomaly_entry == AnomalyEntry(anomaly, drone_id)
                      appended == Append(st.anomalies, anomaly_entry)
                  IN  [anomalies |-> IF Len(appended) > CentralAnomalyCap
                                     THEN Tail(appended) ELSE appended,
                       last_anomaly_report |->
                           DictPut(lar0, drone_id,
                                   DictPut(lar0[drone_id], AnomalyKey(anomaly),
                                           anomaly.value)),
                       forwarded |-> Append(st.forwarded, anomaly_entry)]
             ELSE [st EXCEPT !.last_anomaly_report = lar0]

GuiState ==
    [anomalies |-> c_anomalies, last_anomaly_report |-> last_anomaly_report,
     forwarded |-> forwarded]

\* _process_drone_data: whether the anomalies of a report reach add_anomalies
HandsAnomalies(report) ==
    /\ report.drone_id # NoDrone
    /\ report.anomalies # <<>>
    /\ StatusOfReport(report) \notin {"Returning To Base", "Charging"}

\* CentralServer._process_drone_data(drone_data)
ProcessDroneData(report) ==
    IF report.drone_id = NoDrone
    THEN UNCHANGED <<drone_statuses, c_anomalies, last_anomaly_report, forwarded,
                     handed>>
    ELSE /\ drone_statuses' = DictPut(drone_statuses, report.drone_id,
                                      StatusOfReport(report))
         /\ IF HandsAnomalies(report)
            THEN LET st == AddAnomalies(GuiState, report.drone_id, report.anomalies)
                 IN  /\ c_anomalies' = st.anomalies
                     /\ last_anomaly_report' = st.last_anomaly_report
                     /\ forwarded' = st.forwarded
                     /\ handed' = DictPut(handed, report.drone_id,
                                           Append(DictGet(handed, report.drone_id, <<>>),
                                                  report.anomalies))
            ELSE UNCHANGED <<c_anomalies, last_anomaly_report, forwarded, handed>>

\* _start_server: accept, register the record, start the handler
CentralAccept(addr) ==
    /\ chpc[addr] = "unconnected"
    /\ c_active_connections' =
           Append(DelAddr(c_active_connections, addr),
                  [addr |-> addr, connection |-> addr, last_active |-> now,
                   drone_id |-> NoDrone])
    /\ chpc' = [chpc EXCEPT ![addr] = "recv"]
    /\ UNCHANGED <<c_sock_closed, ch_drone_id, ch_line, drone_statuses, c_anomalies,
                   last_anomaly_report, forwarded, nextSweep, handed>>

\* _handle_client: recv returned one line; last_active is refreshed
CentralRecv(addr, report) ==
    /\ chpc[addr] = "recv"
    /\ addr \notin c_sock_closed
    /\ c_active_connections' =
           IF HasAddr(c_active_connections, addr)
           THEN SetField(c_active_connections, addr, "last_active", now)
           ELSE c_active_connections
    /\ ch_line' = [ch_line EXCEPT ![addr] = Some(report)]
    /\ chpc' = [chpc EXCEPT ![addr] = "dispatch"]
    /\ UNCHANGED <<c_sock_closed, ch_drone_id, drone_statuses, c_anomalies,
                   last_anomaly_report, forwarded, nextSweep, handed>>

\* _handle_client: the decoded line identifies the drone and is processed
CentralDispatch(addr) ==
    /\ chpc[addr] = "dispatch"
    /\ LET report == ch_line[addr][1]
           identify == ch_drone_id[addr] = NoDrone /\ report.drone_id # NoDrone
       IN  /\ ch_drone_id' = [ch_drone_id EXCEPT ![addr] =
                                 IF identify THEN report.drone_id ELSE @]
           /\ c_active_connections' =
                  IF identify /\ HasAddr(c_active_connections, addr)
                  THEN SetField(c_active_connections, addr, "drone_id", report.drone_id)
                  ELSE c_active_connections
           /\ ProcessDroneData(report)
    /\ ch_line' = [ch_line EXCEPT ![addr] = None]
    /\ chpc' = [chpc EXCEPT ![addr] = "recv"]
    /\ UNCHANGED <<c_sock_closed, nextSweep>>

\* is_drone_still_connected: some record carries the drone id
StillConnected(conns, drone_id) ==
    \E i \in 1..Len(conns) : conns[i].drone_id = drone_id

\* _handle_client: recv returned no data or raised (not a timeout); the
\* finally block removes the record, marks the drone and closes the socket
CentralHandlerExit(addr) ==
    /\ chpc[addr] = "recv"
    /\ LET remaining == DelAddr(c_active_connections, addr)
           drone_id == ch_drone_id[addr]
       IN  /\ c_active_connections' = remaining
           /\ drone_statuses' =
                  IF /\ drone_id # NoDrone
                     /\ ~StillConnected(remaining, drone_id)
                     /\ DictGet(drone_statuses, drone_id, "") # "Disconnected"
                  THEN DictPut(drone_statuses, drone_id, "Disconnected")
                  ELSE drone_statuses
    /\ c_sock_closed' = c_sock_closed \cup {addr}
    /\ chpc' = [chpc EXCEPT ![addr] = "exited"]
    /\ UNCHANGED <<ch_drone_id, ch_line, c_anomalies, last_anomaly_report, forwarded,
                   nextSweep, handed>>

\* the timeout test of the monitor with >= in place of >
TimedOutInclusive(rec, t) == t - rec.last_active >= timeout_seconds

\* _monitor_connections: the timeout test
TimedOut(rec, t) == t - rec.last_active > timeout_seconds

ConnectionLost(t) ==
    [issue |-> "connection_lost", value |-> timeout_seconds,
     threshold |-> timeout_seconds, timestamp |-> t, sensor_id |-> "N/A"]

\* the same-drone scan finding nothing
OtherRecordNever(conns, drone_id) == FALSE

\* _monitor_connections: the scan for another record of the same drone
OtherRecord(conns, drone_id) == StillConnected(conns, drone_id)

\* _monitor_connections: the timed-out addresses handled one after the
\* other; st carries the fields the loop touches.  The socket of a record is
\* open (its handler closes it only after removing the record) and its peer
\* is silent, so shutdown() and close() go through.
RECURSIVE SweepLoop(_, _, _)
SweepLoop(st, addrs, t) ==
    IF addrs = <<>> THEN st
    ELSE LET addr == Head(addrs)
             i == CHOOSE j \in 1..Len(st.conns) : st.conns[j].addr = addr
             drone_id == st.conns[i].drone_id
             remaining == DelAddr(st.conns, addr)
             closed == st.closed \cup {st.conns[i].connection}
             mark == /\ ~OtherRecord(remaining, drone_id)
                     /\ DictGet(st.statuses, drone_id, "") # "Disconnected"
             gui == IF mark
                    THEN AddAnomalies(st.gui, drone_id, <<ConnectionLost(t)>>)
                    ELSE st.gui
         IN  SweepLoop([conns |-> remaining, closed |-> closed,
                        statuses |-> IF mark
                                     THEN DictPut(st.statuses, drone_id, "Disconnected")
                                     ELSE st.statuses,
                        gui |-> gui],
                       Tail(addrs), t)

DisconnectedAddrs(conns, t) ==
    LET stale == SelectSeq(conns, LAMBDA rec : TimedOut(rec, t))
    IN  [i \in 1..Len(stale) |-> stale[i].addr]

\* _monitor_connections: one pass after the sleep
MonitorSweep ==
    /\ now >= nextSweep
    /\ nextSweep' = now + cleanup_interval
    /\ LET st == SweepLoop([conns |-> c_active_connections, closed |-> c_sock_closed,
                            statuses |-> drone_statuses, gui |-> GuiState],
                           DisconnectedAddrs(c_active_connections, now), now)
       IN  /\ c_active_connections' = st.conns
           /\ c_sock_closed' = st.closed
           /\ drone_statuses' = st.statuses
           /\ c_anomalies' = st.gui.anomalies
           /\ last_anomaly_report' = st.gui.last_anomaly_report
           /\ forwarded' = st.gui.forwarded
    /\ UNCHANGED <<chpc, ch_drone_id, ch_line, handed>>

\* time passes at the central server; the monitor wakes when its sleep ends
CentralTick ==
    /\ now + TickSeconds <= MaxCentralTime
    /\ now < nextSweep
    /\ now' = now + TickSeconds

(***************************************************************************)
(* The network between an edge server and the central server               *)
(***************************************************************************)
MaxReports == 3

VARIABLES
    reports,   \* number of reports sent to the central server so far
    wire       \* reports sent by DroneClient and not yet received

netVars == <<reports, wire>>

NetInit ==
    /\ reports = 0
    /\ wire = <<>>

\* the address under which the edge server's DroneClient is connected
UplinkAddr == "c1"

\* DroneServer's drone_id ("drone_alpha" unless configured)
UplinkDroneId == "d1"

\* _communicate_with_server: the status string of a report
DroneStatusOf(status) ==
    IF status.charging THEN "charging"
    ELSE IF status.returning_to_base THEN "returning_to_base"
    ELSE "normal"

\* _communicate_with_server, one pass of the loop: check_status,
\* compute_averages, get_anomalies and DroneClient.send_to_server
CommunicateWithServer ==
    /\ reports < MaxReports
    /\ check_status
    /\ compute_averages
    /\ wire' = Append(wire, [drone_id |-> UplinkDroneId,
                             average_temperature |-> averages'[1],
                             average_humidity |-> averages'[2],
                             anomalies |-> anomalies,
                             battery_level |-> battResult'.level,
                             status |-> DroneStatusOf(battResult')])
    /\ reports' = reports + 1

\* the handler of the uplink connection receives the oldest report in flight
UplinkRecv ==
    /\ wire # <<>>
    /\ CentralRecv(UplinkAddr, Head(wire))
    /\ wire' = Tail(wire)
    /\ UNCHANGED reports

\* a drone sends a report that the handler of its connection receives
DroneSends(addr, report) ==
    /\ reports < MaxReports
    /\ reports' = reports + 1
    /\ CentralRecv(addr, report)
    /\ UNCHANGED wire

(***************************************************************************)
(* Central server of phase-2 (phase-2/central_server.py): the accept loop, *)
(* the handlers and the monitor are those of the later version; the GUI    *)
(* keeps last_seen per drone, refreshes the statuses every 5 seconds and   *)
(* appends every anomaly it is given.                                      *)
(***************************************************************************)
MaxP2Time == 65
refresh_timeout == 30
\* auto_update_interval, 5000 ms, in seconds
auto_update_interval == 5
AllAnomaliesCap == 5000

P2Addrs == {"c1", "c2"}

VARIABLES
    p2_drone_statuses,   \* ServerGUI.drone_statuses in insertion order:
                         \* records drone_id, status, last_seen
    all_anomalies,       \* ServerGUI.all_anomalies
    nextRefresh          \* time of the next auto_update

p2Vars == <<p2_drone_statuses, all_anomalies, nextRefresh>>

P2Init ==
    /\ p2_drone_statuses = <<>>
    /\ all_anomalies = <<>>
    /\ nextRefresh = 0

P2StatusOf(statuses, drone_id) ==
    IF \E i \in 1..Len(statuses) : statuses[i].drone_id = drone_id
    THEN (CHOOSE rec \in Range(statuses) : rec.drone_id = drone_id).status
    ELSE ""

\* phase-2 ServerGUI.update_drone_status: every call stamps last_seen
P2UpdateDroneStatus(statuses, drone_id, status, t) ==
    IF \E i \in 1..Len(statuses) : statuses[i].drone_id = drone_id
    THEN [i \in 1..Len(statuses) |->
             IF statuses[i].drone_id = drone_id
             THEN [statuses[i] EXCEPT !.status = status, !.last_seen = t]
             ELSE statuses[i]]
    ELSE Append(statuses, [drone_id |-> drone_id, status |-> status, last_seen |-> t])

\* the keys add_anomalies fills in when they are missing
P2Filled(anomaly, drone_id) ==
    [k \in (DOMAIN anomaly) \cup {"drone_id", "threshold"} |->
        IF k = "drone_id" THEN drone_id
        ELSE IF k \in DOMAIN anomaly THEN anomaly[k]
        ELSE "N/A"]

\* phase-2 ServerGUI.add_anomalies: every anomaly of the list is appended
RECURSIVE P2AddAnomalies(_, _, _)
P2AddAnomalies(all, drone_id, anoms) ==
    IF anoms = <<>>
    THEN IF Len(all) > AllAnomaliesCap THEN LastN(all, AllAnomaliesCap) ELSE all
    ELSE P2AddAnomalies(Append(all, P2Filled(Head(anoms), drone_id)), drone_id,
                        Tail(anoms))

P2ConnectionLost(value, limit, t) ==
    [issue |-> "connection_lost", value |-> value, threshold |-> limit,
     timestamp |-> t, sensor_id |-> "N/A"]

\* phase-2 _handle_client: the decoded line identifies the drone;
\* _process_drone_data stores the anomalies and stamps the status
P2Dispatch(addr) ==
    /\ chpc[addr] = "dispatch"
    /\ LET report == ch_line[addr][1]
           identify == ch_drone_id[addr] = NoDrone /\ report.drone_id # NoDrone
       IN  /\ ch_drone_id' = [ch_drone_id EXCEPT ![addr] =
                                 IF identify THEN report.drone_id ELSE @]
           /\ c_active_connections' =
                  IF identify /\ HasAddr(c_active_connections, addr)
                  THEN SetField(c_active_connections, addr, "drone_id", report.drone_id)
                  ELSE c_active_connections
           /\ IF report.drone_id = NoDrone
              THEN UNCHANGED <<p2_drone_statuses, all_anomalies>>
              ELSE /\ all_anomalies' =
                          P2AddAnomalies(all_anomalies, report.drone_id, report.anomalies)
                   /\ p2_drone_statuses' =
                          P2UpdateDroneStatus(p2_drone_statuses, report.drone_id,
                                              IF report.anomalies # <<>>
                                              THEN "Anomalies Detected"
                                              ELSE "Connected", now)
    /\ ch_line' = [ch_line EXCEPT ![addr] = None]
    /\ chpc' = [chpc EXCEPT ![addr] = "recv"]
    /\ UNCHANGED <<c_sock_closed, drone_statuses, c_anomalies, last_anomaly_report,
                   forwarded, nextSweep, handed, nextRefresh>>

\* phase-2 _handle_client: the handler leaves its loop
P2HandlerExit(addr) ==
    /\ chpc[addr] = "recv"
    /\ LET remaining == DelAddr(c_active_connections, addr)
           drone_id == ch_drone_id[addr]
       IN  /\ c_active_connections' = remaining
           /\ p2_drone_statuses' =
                  IF /\ drone_id # NoDrone
                     /\ ~StillConnected(remaining, drone_id)
                     /\ P2StatusOf(p2_drone_statuses, drone_id) # "Disconnected"
                  THEN P2UpdateDroneStatus(p2_drone_statuses, drone_id,
                                           "Disconnected", now)
                  ELSE p2_drone_statuses
    /\ c_sock_closed' = c_sock_closed \cup {addr}
    /\ chpc' = [chpc EXCEPT ![addr] = "exited"]
    /\ UNCHANGED <<ch_drone_id, ch_line, drone_statuses, c_anomalies,
                   last_anomaly_report, forwarded, nextSweep, handed,
                   all_anomalies, nextRefresh>>

\* phase-2 _monitor_connections: the timed-out addresses one after the other
RECURSIVE P2SweepLoop(_, _, _)
P2SweepLoop(st, addrs, t) ==
    IF addrs = <<>> THEN st
    ELSE LET addr == Head(addrs)
             i == CHOOSE j \in 1..Len(st.conns) : st.conns[j].addr = addr
             drone_id == st.conns[i].drone_id
             remaining == DelAddr(st.conns, addr)
             mark == /\ ~StillConnected(remaining, drone_id)
                     /\ P2StatusOf(st.statuses, drone_id) # "Disconnected"
         IN  P2SweepLoop(
                 [conns |-> remaining,
                  closed |-> st.closed \cup {st.conns[i].connection},
                  statuses |-> IF mark
                               THEN P2UpdateDroneStatus(st.statuses, drone_id,
                                                        "Disconnected", t)
                               ELSE st.statuses,
                  all |-> IF mark
                          THEN P2AddAnomalies(st.all, drone_id,
                                   <<P2ConnectionLost(timeout_seconds,
                                                      timeout_seconds, t)>>)
                          ELSE st.all],
                 Tail(addrs), t)

\* phase-2 _monitor_connections: one pass after the sleep
P2MonitorSweep ==
    /\ now >= nextSweep
    /\ nextSweep' = now + cleanup_interval
    /\ LET st == P2SweepLoop([conns |-> c_active_connections,
                              closed |-> c_sock_closed,
                              statuses |-> p2_drone_statuses,
                              all |-> all_anomalies],
                             DisconnectedAddrs(c_active_connections, now), now)
       IN  /\ c_active_connections' = st.conns
           /\ c_sock_closed' = st.closed
           /\ p2_drone_statuses' = st.statuses
           /\ all_anomalies' = st.all
    /\ UNCHANGED <<chpc, ch_drone_id, ch_line, drone_statuses, c_anomalies,
                   last_anomaly_report, forwarded, handed, nextRefresh>>

\* phase-2 update_current_readings: the drones in the order of the dict
RECURSIVE RefreshLoop(_, _, _)
RefreshLoop(st, i, t) ==
    IF i > Len(st.statuses) THEN st
    ELSE LET rec == st.statuses[i]
             age == t - rec.last_seen
         IN  IF age < refresh_timeout
             THEN RefreshLoop(
                      [st EXCEPT !.statuses =
                          IF rec.status = "Disconnected"
                          THEN P2UpdateDroneStatus(st.statuses, rec.drone_id,
                                                   "Connected", t)
                          ELSE st.statuses],
                      i + 1, t)
             ELSE IF rec.status # "Disconnected"
             THEN RefreshLoop(
                      [statuses |-> P2UpdateDroneStatus(st.statuses, rec.drone_id,
                                                        "Disconnected", t),
                       all |-> P2AddAnomalies(st.all, rec.drone_id,
                                   <<P2ConnectionLost(age, refresh_timeout, t)>>)],
                      i + 1, t)
             ELSE RefreshLoop(st, i + 1, t)

\* phase-2 auto_update: update_current_readings, then the next run is scheduled
AutoUpdate ==
    /\ now >= nextRefresh
    /\ nextRefresh' = now + auto_update_interval
    /\ LET st == RefreshLoop([statuses |-> p2_drone_statuses, all |-> all_anomalies],
                             1, now)
       IN  /\ p2_drone_statuses' = st.statuses
           /\ all_anomalies' = st.all
    /\ UNCHANGED centralVars

\* time passes at the phase-2 central server.  A drone sends its first
\* report as soon as it has connected (DroneClient.send_to_server), so no
\* time passes while a handler has not yet identified its drone.
P2Tick ==
    /\ now + TickSeconds <= MaxP2Time
    /\ now < nextSweep
    /\ now < nextRefresh
    /\ \A a \in P2Addrs : chpc[a] # "dispatch" /\ (chpc[a] = "recv" => ch_drone_id[a] # NoDrone)
    /\ now' = now + TickSeconds

(***************************************************************************)
(* ConnectionManager (phase-2/drone_server.py): disconnect_node, called    *)
(* from the GUI on the maps it shares with DroneServer.                    *)
(***************************************************************************)
\* ids the operator asks to disconnect: the two sensors and a stranger
DisconnectIds == SensorIds \cup {"s9"}

VARIABLES
    cmOp,       \* "disconnect_node" in the state a call produced, else "none"
    cmArg,      \* the sensor_id that call was given
    cmResult    \* the value it returned

cmVars == <<cmOp, cmArg, cmResult>>

CmInit ==
    /\ cmOp = "none"
    /\ cmArg = None
    /\ cmResult = FALSE

\* a step of DroneServer that is not a ConnectionManager call
CmIdle ==
    /\ cmOp' = "none"
    /\ cmArg' = None
    /\ cmResult' = FALSE

\* disconnect_node leaving the record in the map
AfterDisconnectKept(conns, addr) == conns

\* disconnect_node: del self.active_connections[addr]
AfterDisconnect(conns, addr) == DictDel(conns, addr)

\* ConnectionManager.disconnect_node(sensor_id); close_ok is whether
\* conn.close() returned rather than raised
disconnect_node(sensor_id, close_ok) ==
    /\ cmOp' = "disconnect_node"
    /\ cmArg' = Some(sensor_id)
    /\ IF sensor_id \notin DOMAIN node_to_addr
       THEN /\ cmResult' = FALSE
            /\ UNCHANGED <<active_connections, sock_closed>>
       ELSE LET addr == node_to_addr[sensor_id] IN
            IF addr \notin DOMAIN active_connections
            THEN /\ cmResult' = FALSE
                 /\ UNCHANGED <<active_connections, sock_closed>>
            ELSE IF close_ok
            THEN /\ sock_closed' = sock_closed \cup {active_connections[addr]}
                 /\ active_connections' = AfterDisconnect(active_connections, addr)
                 /\ cmResult' = TRUE
            ELSE /\ cmResult' = FALSE
                 /\ UNCHANGED <<active_connections, sock_closed>>
    /\ UNCHANGED <<node_to_addr, data_queue, hpc, h_sensor_id, ppc, bpc, last_state,
                   battery_status, loops, acceptMode, justReturned, evicted>>

\* readings the handlers offer to the queue in a behaviour that fills it
MaxOffered == 103

VARIABLES
    data_stream_active,  \* DroneServer.data_stream_active
    offered              \* history: readings handlers have put or tried to put

\* DroneServer.toggle_data_stream
toggle_data_stream ==
    /\ data_stream_active' = ~data_stream_active

\* _handle_client while the stream is paused: the line is decoded, the
\* sensor is registered, and the reading is ignored
HandlerRecvPaused(addr, sensor_data) ==
    /\ hpc[addr] = "recv"
    /\ addr \notin sock_closed
    /\ ~data_stream_active
    /\ LET current_sensor_id == sensor_data.sensor_id
           renew == h_sensor_id[addr] = None \/ h_sensor_id[addr] # Some(current_sensor_id)
       IN  /\ h_sensor_id' = [h_sensor_id EXCEPT ![addr] =
                                 IF renew THEN Some(current_sensor_id) ELSE @]
           /\ node_to_addr' = IF renew THEN DictPut(node_to_addr, current_sensor_id, addr)
                              ELSE node_to_addr
    /\ hpc' = [hpc EXCEPT ![addr] = "loop"]
    /\ UNCHANGED <<active_connections, data_queue, sock_closed, ppc, bpc, last_state,
                   battery_status, loops, justReturned, evicted, acceptMode>>

(***************************************************************************)
(* DroneClient (phase-2/drone_server.py): the uplink socket of the edge    *)
(* server, connected lazily by send_to_server.                             *)
(***************************************************************************)
\* send_to_server calls in a behaviour
MaxClientCalls == 6

\* what sock.connect does: returns, raises ConnectionRefusedError, or raises
\* another OSError (timeout, unreachable host)
ConnectOutcomes == {"ok", "refused", "error"}

\* what sock.sendall does: returns, raises ConnectionResetError or
\* BrokenPipeError, or raises another OSError (timeout, aborted connection)
WriteOutcomes == {"ok", "reset", "broken_pipe", "error"}

VARIABLES
    dc_connected,   \* DroneClient.connected
    dc_sock,        \* DroneClient.sock: None, or the number of the socket
    dcCalls,        \* send_to_server calls made
    dcConnect,      \* history: outcome of connect() in the last call, or "none"
    dcWrite,        \* history: outcome of sendall in the last call, or "none"
    dcResult        \* history: "True", "False", or "raised" for the last call

clientVars == <<dc_connected, dc_sock, dcCalls, dcConnect, dcWrite, dcResult>>

ClientInit ==
    /\ dc_connected = FALSE
    /\ dc_sock = None
    /\ dcCalls = 0
    /\ dcConnect = "none"
    /\ dcWrite = "none"
    /\ dcResult = "none"

\* send_to_server: except (ConnectionResetError, BrokenPipeError)
WriteCaught(outcome) == outcome \in {"reset", "broken_pipe"}

\* DroneClient.send_to_server, with connect() inlined; connect_outcome is
\* consulted only if the call connects, write_outcome only if it writes
send_to_server(connect_outcome, write_outcome) ==
    /\ dcCalls < MaxClientCalls
    /\ dcCalls' = dcCalls + 1
    /\ LET connects == ~dc_connected
           fresh == IF dc_sock = None THEN Some(1) ELSE Some(dc_sock[1] + 1)
           sockNow == IF connects THEN fresh ELSE dc_sock
           connectedNow == IF connects THEN connect_outcome = "ok" ELSE dc_connected
       IN  /\ dc_sock' = sockNow
           /\ dcConnect' = IF connects THEN connect_outcome ELSE "none"
           /\ IF connects /\ connect_outcome = "refused"
              THEN /\ dc_connected' = FALSE
                   /\ dcWrite' = "none"
                   /\ dcResult' = "False"
              ELSE IF connects /\ connect_outcome = "error"
              THEN /\ dc_connected' = dc_connected
                   /\ dcWrite' = "none"
                   /\ dcResult' = "raised"
              ELSE /\ dcWrite' = write_outcome
                   /\ IF write_outcome = "ok"
                      THEN /\ dc_connected' = connectedNow
                           /\ dcResult' = "True"
                      ELSE IF WriteCaught(write_outcome)
                      THEN /\ dc_connected' = FALSE
                           /\ dcResult' = "False"
                      ELSE /\ dc_connected' = connectedNow
                           /\ dcResult' = "raised"

(***************************************************************************)
(* SensorNode (phase-2/nodes.py): the run loop of a sensor process, its    *)
(* repair timer thread, and the drone it connects to.  Time is counted in  *)
(* seconds left of the current sleep and of the repair timer.              *)
(***************************************************************************)
\* handle_reconnection: max_attempts, and the base of the backoff
max_attempts == 5
BackoffBase == 2

\* run: the sleep after a failed reconnection round
RetrySleep == 10

\* SensorNode.__init__: repair_time, and the send interval in whole seconds
repair_time == 5
send_interval == 1

\* simulated failures, and losses of the drone, in a behaviour
MaxFailures == 1
MaxOutages == 2

RECURSIVE Pow(_, _)
Pow(b, n) == IF n = 0 THEN 1 ELSE b * Pow(b, n - 1)

\* a backoff growing linearly with the attempt
WaitTimeLinear(attempt) == BackoffBase * attempt

\* handle_reconnection: wait_time = 2 ** current_attempt
WaitTime(attempt) == Pow(BackoffBase, attempt)

VARIABLES
    running,          \* SensorNode.running
    connected,        \* SensorNode.connected
    is_broken,        \* SensorNode.is_broken
    socket,           \* SensorNode.socket: "None", "unconnected", "open", "closed"
    repair_timer,     \* None, or <<seconds left>> of the started Timer
    link,             \* the drone's end of the node's connection is open
    drone_up,         \* the drone accepts connections
    npc,              \* position of run()
    rpc,              \* position of handle_reconnection()
    current_attempt,  \* local of handle_reconnection
    sleep_left,       \* seconds left of the time.sleep in progress
    nodeOp,           \* the method called last in the step that led here
    nodeResult,       \* what it returned
    waits,            \* history: wait_time of each sleep of the current round
    slept,            \* history: seconds slept in the current round
    hrResult,         \* what handle_reconnection returned to its caller
    roundClean,       \* history: the round began running and not broken, and
                      \* every connect of it was refused
    established,      \* history: a connect has succeeded
    everSent,         \* history: a reading has been written to the socket
    failures,         \* simulated failures so far
    outages           \* losses of the drone so far

nodeVars == <<running, connected, is_broken, socket, repair_timer, link, drone_up,
              npc, rpc, current_attempt, sleep_left, nodeOp, nodeResult, waits, slept,
              hrResult, roundClean, established, everSent, failures, outages>>

\* SensorNode.__init__, started before the drone is up
NodeInit ==
    /\ running = FALSE
    /\ connected = FALSE
    /\ is_broken = FALSE
    /\ socket = "None"
    /\ repair_timer = None
    /\ link = FALSE
    /\ drone_up = FALSE
    /\ npc = "start"
    /\ rpc = "idle"
    /\ current_attempt = 0
    /\ sleep_left = 0
    /\ nodeOp = "none"
    /\ nodeResult = FALSE
    /\ waits = <<>>
    /\ slept = 0
    /\ hrResult = FALSE
    /\ roundClean = FALSE
    /\ established = FALSE
    /\ everSent = FALSE
    /\ failures = 0
    /\ outages = 0

\* the positions of the caller, of the round and of the sleep, and the
\* histories of the round
nodeControl == <<npc, rpc, current_attempt, sleep_left, waits, slept, roundClean,
                 hrResult>>

\* ---- the methods, as the change each makes to the node itself; the
\* caller says what becomes of running and of its own position ----

\* a connect that does not look at is_broken
connect_to_drone_unguarded ==
    /\ nodeOp' = "connect_to_drone"
    /\ IF drone_up
       THEN /\ socket' = "open"
            /\ connected' = TRUE
            /\ link' = TRUE
            /\ established' = TRUE
            /\ nodeResult' = TRUE
       ELSE /\ socket' = "unconnected"
            /\ connected' = FALSE
            /\ link' = FALSE
            /\ nodeResult' = FALSE
            /\ UNCHANGED established
    /\ UNCHANGED <<is_broken, repair_timer, drone_up, everSent, failures, outages>>

\* connect_to_drone(): refused unless the drone is up
connect_to_drone ==
    /\ nodeOp' = "connect_to_drone"
    /\ IF is_broken
       THEN /\ nodeResult' = FALSE
            /\ UNCHANGED <<connected, socket, link, established>>
       ELSE IF drone_up
       THEN /\ socket' = "open"
            /\ connected' = TRUE
            /\ link' = TRUE
            /\ established' = TRUE
            /\ nodeResult' = TRUE
       ELSE /\ socket' = "unconnected"
            /\ connected' = FALSE
            /\ link' = FALSE
            /\ nodeResult' = FALSE
            /\ UNCHANGED established
    /\ UNCHANGED <<is_broken, repair_timer, drone_up, everSent, failures, outages>>

\* collect_environmental_data(): None (FALSE here) while broken, else a reading
collect_environmental_data ==
    /\ nodeOp' = "collect_environmental_data"
    /\ nodeResult' = ~is_broken
    /\ UNCHANGED <<connected, is_broken, socket, repair_timer, link,
                   drone_up, established, everSent, failures, outages>>

\* send_data(data): sendall raises socket.error unless the connection is
\* open at both ends
send_data ==
    /\ nodeOp' = "send_data"
    /\ IF is_broken \/ ~connected
       THEN /\ nodeResult' = FALSE
            /\ UNCHANGED <<connected, everSent>>
       ELSE IF socket = "open" /\ link
       THEN /\ nodeResult' = TRUE
            /\ everSent' = TRUE
            /\ UNCHANGED connected
       ELSE /\ nodeResult' = FALSE
            /\ connected' = FALSE
            /\ UNCHANGED everSent
    /\ UNCHANGED <<is_broken, socket, repair_timer, link, drone_up,
                   established, failures, outages>>

\* simulate_failure(); fails stands for random.random() < failure_probability
simulate_failure(fails) ==
    /\ nodeOp' = "simulate_failure"
    /\ nodeResult' = FALSE
    /\ IF ~is_broken /\ fails /\ failures < MaxFailures
       THEN /\ is_broken' = TRUE
            /\ failures' = failures + 1
            /\ IF socket # "None"
               THEN /\ socket' = "closed"
                    /\ connected' = FALSE
                    /\ link' = FALSE
               ELSE UNCHANGED <<socket, connected, link>>
            /\ repair_timer' = Some(repair_time)
       ELSE UNCHANGED <<is_broken, failures, socket, connected, link, repair_timer>>
    /\ UNCHANGED <<drone_up, established, everSent, outages>>

\* repair_sensor(), run by the Timer thread when its time is up
repair_sensor ==
    /\ repair_timer = Some(0)
    /\ repair_timer' = None
    /\ is_broken' = FALSE
    /\ nodeOp' = "repair_sensor"
    /\ nodeResult' = FALSE
    /\ UNCHANGED <<running, connected, socket, link, drone_up, established,
                   everSent, failures, outages, nodeControl>>

\* stop(): cancels the timer and closes the socket
stop ==
    /\ running' = FALSE
    /\ repair_timer' = None
    /\ socket' = IF socket = "None" THEN "None" ELSE "closed"
    /\ link' = FALSE
    /\ nodeOp' = "stop"
    /\ nodeResult' = FALSE
    /\ UNCHANGED <<connected, is_broken, drone_up, established, everSent, failures,
                   outages>>

\* ---- handle_reconnection(), step by step ----

\* entry: the broken test, closing the old socket, current_attempt = 0
HrEnter ==
    /\ rpc = "enter"
    /\ nodeOp' = "handle_reconnection"
    /\ IF is_broken
       THEN /\ rpc' = "done"
            /\ nodeResult' = FALSE
            /\ hrResult' = FALSE
            /\ roundClean' = FALSE
            /\ UNCHANGED <<socket, link, current_attempt, waits, slept>>
       ELSE /\ socket' = IF socket = "None" THEN "None" ELSE "closed"
            /\ link' = FALSE
            /\ current_attempt' = 0
            /\ waits' = <<>>
            /\ slept' = 0
            /\ roundClean' = running
            /\ rpc' = "test"
            /\ nodeResult' = FALSE
            /\ hrResult' = FALSE
    /\ UNCHANGED <<running, connected, is_broken, repair_timer, drone_up, npc,
                   sleep_left, established, everSent, failures, outages>>

\* the while test, and one attempt with the sleep it starts on failure
HrAttempt ==
    /\ rpc = "test"
    /\ IF current_attempt < max_attempts /\ running /\ ~is_broken
       THEN /\ current_attempt' = current_attempt + 1
            /\ connect_to_drone
            /\ UNCHANGED running
            /\ IF nodeResult'
               THEN /\ rpc' = "done"
                    /\ hrResult' = TRUE
                    /\ roundClean' = FALSE
                    /\ UNCHANGED <<waits, slept, sleep_left>>
               ELSE /\ waits' = Append(waits, WaitTime(current_attempt'))
                    /\ sleep_left' = WaitTime(current_attempt')
                    /\ rpc' = "sleep"
                    /\ UNCHANGED <<slept, roundClean, hrResult>>
       ELSE /\ rpc' = "done"
            /\ nodeOp' = "handle_reconnection"
            /\ nodeResult' = FALSE
            /\ hrResult' = FALSE
            /\ roundClean' = (roundClean /\ running /\ ~is_broken)
            /\ UNCHANGED <<running, connected, is_broken, socket, repair_timer, link,
                           drone_up, established, everSent, failures, outages,
                           current_attempt, waits, slept, sleep_left>>
    /\ UNCHANGED npc

\* the sleep of the backoff is over
HrWake ==
    /\ rpc = "sleep"
    /\ sleep_left = 0
    /\ rpc' = "test"
    /\ nodeOp' = "none"
    /\ nodeResult' = FALSE
    /\ UNCHANGED <<running, connected, is_broken, socket, repair_timer, link,
                   drone_up, established, everSent, failures, outages, npc,
                   current_attempt, sleep_left, waits, slept, roundClean, hrResult>>

\* ---- run(), step by step ----

\* running = True and the initial connect_to_drone()
RunStart ==
    /\ npc = "start"
    /\ connect_to_drone
    /\ running' = TRUE
    /\ IF nodeResult'
       THEN npc' = "loop" /\ rpc' = "idle"
       ELSE npc' = "reconnect_initial" /\ rpc' = "enter"
    /\ UNCHANGED <<current_attempt, sleep_left, waits, slept, roundClean, hrResult>>

\* the first reconnection round has returned: give up, or enter the loop
RunAfterInitial ==
    /\ npc = "reconnect_initial"
    /\ rpc = "done"
    /\ npc' = IF hrResult THEN "loop" ELSE "returned"
    /\ rpc' = "idle"
    /\ UNCHANGED <<running, connected, is_broken, socket, repair_timer, link,
                   drone_up, established, everSent, failures, outages, nodeOp,
                   nodeResult, current_attempt, sleep_left, waits, slept, roundClean, hrResult>>

\* top of the loop: simulate_failure(), then the connected test
RunLoopTop ==
    /\ npc = "loop"
    /\ IF running
       THEN /\ \E fails \in BOOLEAN : simulate_failure(fails)
            /\ UNCHANGED running
            /\ IF connected'
               THEN npc' = "collect" /\ rpc' = "idle"
               ELSE npc' = "reconnect_loop" /\ rpc' = "enter"
       ELSE /\ stop
            /\ npc' = "stopped"
            /\ rpc' = "idle"
    /\ UNCHANGED <<current_attempt, sleep_left, waits, slept, roundClean, hrResult>>

\* a loop that returns when a later round fails
AfterLaterRoundGivingUp(ok) == IF ok THEN "collect" ELSE "returned"

\* run: "if not self.connected and not self.handle_reconnection():
\* time.sleep(10); continue", else on to collect
AfterLaterRound(ok) == IF ok THEN "collect" ELSE "sleep"

\* a later round has returned: on failure sleep 10 seconds and continue
RunAfterReconnect ==
    /\ npc = "reconnect_loop"
    /\ rpc = "done"
    /\ rpc' = "idle"
    /\ npc' = AfterLaterRound(hrResult)
    /\ sleep_left' = IF hrResult THEN sleep_left ELSE RetrySleep
    /\ UNCHANGED <<running, connected, is_broken, socket, repair_timer, link,
                   drone_up, established, everSent, failures, outages, nodeOp,
                   nodeResult, current_attempt, waits, slept, roundClean, hrResult>>

\* collect_environmental_data() and send_data(data); a failed send
\* continues the loop at once, anything else sleeps send_interval
RunCollectSend ==
    /\ npc = "collect"
    /\ IF is_broken
       THEN /\ collect_environmental_data
            /\ npc' = "sleep"
            /\ sleep_left' = send_interval
       ELSE /\ send_data
            /\ IF nodeResult'
               THEN npc' = "sleep" /\ sleep_left' = send_interval
               ELSE npc' = "loop" /\ UNCHANGED sleep_left
    /\ UNCHANGED <<running, rpc, current_attempt, waits, slept, roundClean, hrResult>>

\* a sleep of the loop is over
RunWake ==
    /\ npc = "sleep"
    /\ sleep_left = 0
    /\ npc' = "loop"
    /\ nodeOp' = "none"
    /\ nodeResult' = FALSE
    /\ UNCHANGED <<running, connected, is_broken, socket, repair_timer, link,
                   drone_up, established, everSent, failures, outages, rpc,
                   current_attempt, sleep_left, waits, slept, roundClean, hrResult>>

\* KeyboardInterrupt inside the try block: the finally clause calls stop()
RunInterrupt ==
    /\ npc \in {"loop", "reconnect_loop", "collect", "sleep"}
    /\ stop
    /\ npc' = "stopped"
    /\ rpc' = "idle"
    /\ sleep_left' = 0
    /\ UNCHANGED <<current_attempt, waits, slept, roundClean, hrResult>>

\* ---- time and the drone ----

\* a sleep or the repair timer is running and neither is due
Counting ==
    /\ \/ repair_timer # None
       \/ (rpc = "sleep" \/ npc = "sleep")
    /\ repair_timer # Some(0)
    /\ (rpc = "sleep" \/ npc = "sleep") => sleep_left > 0

\* one second passes
NodeTick ==
    /\ Counting
    /\ sleep_left' = IF sleep_left > 0 THEN sleep_left - 1 ELSE 0
    /\ repair_timer' = IF repair_timer = None THEN None
                       ELSE Some(repair_timer[1] - 1)
    /\ slept' = IF rpc = "sleep" THEN slept + 1 ELSE slept
    /\ nodeOp' = "none"
    /\ nodeResult' = FALSE
    /\ UNCHANGED <<running, connected, is_broken, socket, link, drone_up,
                   established, everSent, failures, outages, npc, rpc,
                   current_attempt, waits, roundClean, hrResult>>

\* the drone goes away (returns to base, stops): it drops the connection
\* and refuses new ones
DroneDown ==
    /\ drone_up
    /\ outages < MaxOutages
    /\ outages' = outages + 1
    /\ drone_up' = FALSE
    /\ link' = FALSE
    /\ nodeOp' = "none"
    /\ nodeResult' = FALSE
    /\ UNCHANGED <<running, connected, is_broken, socket, repair_timer,
                   established, everSent, failures, nodeControl>>

\* the drone accepts connections again
DroneUp ==
    /\ ~drone_up
    /\ drone_up' = TRUE
    /\ nodeOp' = "none"
    /\ nodeResult' = FALSE
    /\ UNCHANGED <<running, connected, is_broken, socket, repair_timer, link,
                   established, everSent, failures, outages, nodeControl>>

\* ---- the methods called one at a time, in any order, by the owner of
\* the node object (npc = "api") ----

\* self.running = True
ApiStart ==
    /\ npc = "start"
    /\ npc' = "api"
    /\ running' = TRUE
    /\ nodeOp' = "none"
    /\ nodeResult' = FALSE
    /\ UNCHANGED <<connected, is_broken, socket, repair_timer, link, drone_up,
                   established, everSent, failures, outages, rpc, current_attempt,
                   sleep_left, waits, slept, roundClean, hrResult>>

ApiIdle == npc = "api" /\ rpc = "idle"

ApiConnect == ApiIdle /\ connect_to_drone /\ UNCHANGED <<running, nodeControl>>

ApiCollect == ApiIdle /\ collect_environmental_data /\ UNCHANGED <<running, nodeControl>>

ApiSend == ApiIdle /\ send_data /\ UNCHANGED <<running, nodeControl>>

ApiSimulateFailure ==
    /\ ApiIdle
    /\ \E fails \in BOOLEAN : simulate_failure(fails)
    /\ UNCHANGED <<running, nodeControl>>

\* handle_reconnection() is called, and returns
ApiReconnectCall ==
    /\ ApiIdle
    /\ rpc' = "enter"
    /\ nodeOp' = "none"
    /\ nodeResult' = FALSE
    /\ UNCHANGED <<running, connected, is_broken, socket, repair_timer, link,
                   drone_up, established, everSent, failures, outages, npc,
                   current_attempt, sleep_left, waits, slept, roundClean, hrResult>>

ApiReconnectReturn ==
    /\ npc = "api"
    /\ rpc = "done"
    /\ rpc' = "idle"
    /\ nodeOp' = "none"
    /\ nodeResult' = FALSE
    /\ UNCHANGED <<running, connected, is_broken, socket, repair_timer, link,
                   drone_up, established, everSent, failures, outages, npc,
                   current_attempt, sleep_left, waits, slept, roundClean, hrResult>>

ApiStop ==
    /\ ApiIdle
    /\ stop
    /\ npc' = "stopped"
    /\ UNCHANGED <<rpc, current_attempt, sleep_left, waits, slept, roundClean,
                   hrResult>>

\* the steps of the node's main thread
NodeThread ==
    \/ RunStart
    \/ HrEnter
    \/ HrAttempt
    \/ HrWake
    \/ RunAfterInitial
    \/ RunLoopTop
    \/ RunAfterReconnect
    \/ RunCollectSend
    \/ RunWake

(***************************************************************************)
(* Framing of a connection's byte stream into lines by _handle_client, at  *)
(* the edge (phase-2/drone_server.py) and at the central server            *)
(* (after-rubric).  A stream is a sequence of bytes; "c3" "a9" is the      *)
(* two-byte UTF-8 encoding of one character.  JSON texts are abridged: an  *)
(* object is "{", a payload of one or more characters, "}"; "5" is a       *)
(* number; surrounding blanks are allowed; anything else is not JSON.      *)
(***************************************************************************)
\* lines in a stream, and bytes one recv may return
MaxLines == 3
MaxChunk == 5

NL == "\n"
Blank == " "
PayloadChars == {"1", "2", "e'"}

\* bytes.decode('utf-8'): the characters, or "UnicodeDecodeError" when the
\* bytes hold a lone lead or continuation byte
RECURSIVE Utf8Decode(_)
Utf8Decode(bytes) ==
    IF bytes = <<>> THEN <<>>
    ELSE IF Head(bytes) = "c3"
    THEN IF Len(bytes) >= 2 /\ bytes[2] = "a9"
         THEN LET rest == Utf8Decode(SubSeq(bytes, 3, Len(bytes)))
              IN  IF rest = "UnicodeDecodeError" THEN rest ELSE <<"e'">> \o rest
         ELSE "UnicodeDecodeError"
    ELSE IF Head(bytes) = "a9"
    THEN "UnicodeDecodeError"
    ELSE LET rest == Utf8Decode(Tail(bytes))
         IN  IF rest = "UnicodeDecodeError" THEN rest ELSE <<Head(bytes)>> \o rest

\* str.encode('utf-8')
RECURSIVE Utf8Encode(_)
Utf8Encode(chars) ==
    IF chars = <<>> THEN <<>>
    ELSE (IF Head(chars) = "e'" THEN <<"c3", "a9">> ELSE <<Head(chars)>>)
         \o Utf8Encode(Tail(chars))

\* index of the first newline of a text, 0 when it has none
RECURSIVE FirstNewline(_, _)
FirstNewline(text, i) ==
    IF i > Len(text) THEN 0
    ELSE IF text[i] = NL THEN i
    ELSE FirstNewline(text, i + 1)

\* str.strip()
RECURSIVE Strip(_)
Strip(text) ==
    IF text = <<>> THEN <<>>
    ELSE IF Head(text) = Blank THEN Strip(Tail(text))
    ELSE IF text[Len(text)] = Blank THEN Strip(SubSeq(text, 1, Len(text) - 1))
    ELSE text

\* json.loads(line): <<"object", payload>>, <<"number">>, or "JSONDecodeError"
json_loads(line) ==
    LET t == Strip(line)
    IN  IF t = <<"5">> THEN <<"number">>
        ELSE IF /\ Len(t) >= 3
                /\ t[1] = "{"
                /\ t[Len(t)] = "}"
                /\ \A i \in 2..(Len(t) - 1) : t[i] \in PayloadChars
        THEN <<"object", SubSeq(t, 2, Len(t) - 1)>>
        ELSE "JSONDecodeError"

VARIABLES
    fr_tier,      \* "edge" or "central": whose _handle_client this is
    fr_orig,      \* history: the bytes the peer sends on the connection
    fr_stream,    \* the bytes not yet returned by recv
    buffer,       \* _handle_client's buffer
    dispatched,   \* history: payloads of the objects the handler went on to process
    fr_pc         \* "idle", "recv", "eof", "raised"

framingVars == <<fr_tier, fr_orig, fr_stream, buffer, dispatched, fr_pc>>

FramingInit ==
    /\ fr_tier = "edge"
    /\ fr_orig = <<>>
    /\ fr_stream = <<>>
    /\ buffer = <<>>
    /\ dispatched = <<>>
    /\ fr_pc = "idle"

\* the inner loop "while '\n' in buffer": <<how it ended, buffer, dispatched>>.
\* At the edge sensor_data.get raises AttributeError on a value that is not
\* an object; at the central server "drone_id" in drone_data raises
\* TypeError, or _process_drone_data raises AttributeError.  The central
\* handler skips blank lines before json.loads.
RECURSIVE ProcessBuffer(_, _, _)
ProcessBuffer(tier, buf, disp) ==
    LET i == FirstNewline(buf, 1)
    IN  IF i = 0 THEN <<"ok", buf, disp>>
        ELSE LET line == SubSeq(buf, 1, i - 1)
                 rest == SubSeq(buf, i + 1, Len(buf))
                 value == json_loads(line)
             IN  IF tier = "central" /\ Strip(line) = <<>>
                 THEN ProcessBuffer(tier, rest, disp)
                 ELSE IF value = "JSONDecodeError"
                 THEN ProcessBuffer(tier, rest, disp)
                 ELSE IF value[1] = "object"
                 THEN ProcessBuffer(tier, rest, Append(disp, value[2]))
                 ELSE <<"raised", rest, disp>>

\* the texts a peer may put on a line
LineKinds ==
    { <<"{", "1", "}">>, <<"{", "2", "}">>, <<"{", "c3", "a9", "}">>,
      <<"{", "1">>, <<>>, <<Blank>>, <<"5">> }

\* what it may leave unterminated at the end
TailKinds == { <<>>, <<"{", "2">> }

RECURSIVE JoinLines(_)
JoinLines(lines) ==
    IF lines = <<>> THEN <<>>
    ELSE Head(lines) \o <<NL>> \o JoinLines(Tail(lines))

\* a connection is accepted by one of the two servers; the peer will send
\* up to MaxLines lines and perhaps the beginning of another
FrConnect ==
    /\ fr_pc = "idle"
    /\ \E tier \in {"edge", "central"}, n \in 0..MaxLines :
           \E lines \in [1..n -> LineKinds], tailtext \in TailKinds :
               /\ fr_tier' = tier
               /\ fr_orig' = JoinLines(lines) \o tailtext
               /\ fr_stream' = JoinLines(lines) \o tailtext
    /\ buffer' = <<>>
    /\ dispatched' = <<>>
    /\ fr_pc' = "recv"

\* data = client_socket.recv(4096).decode('utf-8') returning k bytes;
\* buffer += data; the inner loop.  An exception leaves the loop.
FrRecv(k) ==
    /\ fr_pc = "recv"
    /\ k \in 1..Min(MaxChunk, Len(fr_stream))
    /\ LET data == Utf8Decode(SubSeq(fr_stream, 1, k))
       IN  /\ fr_stream' = SubSeq(fr_stream, k + 1, Len(fr_stream))
           /\ IF data = "UnicodeDecodeError"
              THEN /\ fr_pc' = "raised"
                   /\ UNCHANGED <<buffer, dispatched>>
              ELSE LET r == ProcessBuffer(fr_tier, buffer \o data, dispatched)
                   IN  /\ fr_pc' = IF r[1] = "ok" THEN "recv" ELSE "raised"
                       /\ buffer' = r[2]
                       /\ dispatched' = r[3]
    /\ UNCHANGED <<fr_tier, fr_orig>>

\* recv returns b'' after the peer has closed: "if not data: break"
FrRecvEof ==
    /\ fr_pc = "recv"
    /\ fr_stream = <<>>
    /\ fr_pc' = "eof"
    /\ UNCHANGED <<fr_tier, fr_orig, fr_stream, buffer, dispatched>>

\* the handler thread is gone; the next connection
FrNext ==
    /\ fr_pc \in {"eof", "raised"}
    /\ fr_pc' = "idle"
    /\ fr_orig' = <<>>
    /\ fr_stream' = <<>>
    /\ buffer' = <<>>
    /\ dispatched' = <<>>
    /\ UNCHANGED fr_tier

(***************************************************************************)
(* Life cycle of the edge server (phase-2/drone_server.py): start(), the   *)
(* accept loop, the loop test of every thread, and stop().  The handlers,  *)
(* the queue consumer and the battery loop are those above, entered        *)
(* through the test "while self.server_running".                           *)
(***************************************************************************)
\* the sensor that connects while the life cycle is followed, and the
\* iterations of _manage_battery followed before stop()
LifeAddrs == {"a1"}
MaxLifeLoops == 1

\* the two loops whose iterations change nothing modelled here
BackgroundLoops == {"_update_nodes_status", "_communicate_with_server"}

VARIABLES
    process,          \* which server this process runs: "none", "edge", "central"
    server_running,   \* DroneServer.server_running
    stop_pc,          \* position of DroneServer.stop()
    apc,              \* position of _start_server
    server_socket,    \* DroneServer.server_socket: "None", "open", "closed"
    bgpc              \* position of each loop of BackgroundLoops

lifeVars == <<process, server_running, stop_pc, apc, server_socket, bgpc>>

\* DroneServer.__init__
LifeInit ==
    /\ process = "none"
    /\ server_running = FALSE
    /\ stop_pc = "idle"
    /\ apc = "unstarted"
    /\ server_socket = "None"
    /\ bgpc = [t \in BackgroundLoops |-> "unstarted"]

\* start(): server_running = True and the five threads are started
DroneStart ==
    /\ process = "none"
    /\ process' = "edge"
    /\ server_running' = TRUE
    /\ apc' = "bind"
    /\ bgpc' = [t \in BackgroundLoops |-> "top"]
    /\ UNCHANGED <<stop_pc, server_socket>>

\* _start_server: socket(), bind() and listen(); an exception ends the
\* thread through the outer handler and the finally clause
ServerBind(ok) ==
    /\ apc = "bind"
    /\ IF ok
       THEN apc' = "top" /\ server_socket' = "open"
       ELSE apc' = "exited" /\ server_socket' = "closed"
    /\ UNCHANGED <<process, server_running, stop_pc, bgpc>>

\* _start_server: "while self.server_running"; the finally clause closes
\* the listening socket
ServerLoopTest ==
    /\ apc = "top"
    /\ IF server_running
       THEN apc' = "accept" /\ UNCHANGED server_socket
       ELSE apc' = "exited" /\ server_socket' = "closed"
    /\ UNCHANGED <<process, server_running, stop_pc, bgpc>>

\* accept() returns a connection: the check, then reject or start a handler
ServerAccept(addr) ==
    /\ apc = "accept"
    /\ server_socket = "open"
    /\ Accept(addr)
    /\ apc' = "top"
    /\ UNCHANGED <<process, server_running, stop_pc, server_socket, bgpc>>

\* accept() times out after a second, or raises on the closed socket
ServerAcceptNone ==
    /\ apc = "accept"
    /\ apc' = "top"
    /\ UNCHANGED <<process, server_running, stop_pc, server_socket, bgpc>>

\* _handle_client: "while self.server_running", then the battery check
HandlerLoopTest(addr) ==
    /\ hpc[addr] = "loop"
    /\ IF server_running
       THEN HandlerCheckBattery(addr)
       ELSE /\ hpc' = [hpc EXCEPT ![addr] = "cleanup"]
            /\ UNCHANGED <<active_connections, node_to_addr, data_queue, sock_closed,
                           h_sensor_id, ppc, bpc, last_state, battery_status, loops,
                           justReturned, evicted, acceptMode>>

\* _handle_client: the finally block when client_socket.close() raises: the
\* exception leaves the block before active_connections is touched
HandlerCleanupCloseRaises(addr) ==
    /\ hpc[addr] = "cleanup"
    /\ sock_closed' = sock_closed \cup {addr}
    /\ hpc' = [hpc EXCEPT ![addr] = "exited"]
    /\ UNCHANGED <<active_connections, node_to_addr, data_queue, h_sensor_id, ppc,
                   bpc, last_state, battery_status, loops, justReturned, evicted,
                   acceptMode>>

\* _process_data: "while self.server_running", then the battery check
ProcessLoopTest ==
    /\ process = "edge"
    /\ ppc = "check"
    /\ IF server_running
       THEN ProcessCheck
       ELSE /\ ppc' = "exited"
            /\ UNCHANGED <<edgeVars, battVars, active_connections, node_to_addr,
                           data_queue, sock_closed, hpc, h_sensor_id, bpc, last_state,
                           battery_status, loops, justReturned, evicted, acceptMode>>

\* _manage_battery: "while self.server_running", then charge() or consume()
BatteryLoopTest ==
    /\ process = "edge"
    /\ bpc = "drain"
    /\ IF server_running
       THEN BatteryLoopDrain
       ELSE /\ bpc' = "exited"
            /\ UNCHANGED <<battVars, active_connections, node_to_addr, data_queue,
                           sock_closed, hpc, h_sensor_id, ppc, last_state,
                           battery_status, loops, justReturned, evicted, acceptMode>>

\* _update_nodes_status, _communicate_with_server: the loop test fails
BackgroundExit(t) ==
    /\ bgpc[t] = "top"
    /\ ~server_running
    /\ bgpc' = [bgpc EXCEPT ![t] = "exited"]
    /\ UNCHANGED <<process, server_running, stop_pc, apc, server_socket>>

\* stop(): server_running = False
DroneStopFlag ==
    /\ process = "edge"
    /\ stop_pc = "idle"
    /\ server_running' = FALSE
    /\ stop_pc' = "flag"
    /\ UNCHANGED <<process, apc, server_socket, bgpc>>

\* stop(): under the lock, close every connection and clear the map
DroneStopConnections ==
    /\ stop_pc = "flag"
    /\ stop_pc' = "cleared"
    /\ sock_closed' = sock_closed \cup
                          {active_connections[a] : a \in DOMAIN active_connections}
    /\ active_connections' = EmptyDict
    /\ UNCHANGED <<process, server_running, apc, server_socket, bgpc>>
    /\ UNCHANGED <<node_to_addr, data_queue, hpc, h_sensor_id, ppc, bpc, last_state,
                   battery_status, loops, justReturned, evicted, acceptMode>>

\* stop(): close the listening socket if the server thread has made one
DroneStopServerSocket ==
    /\ stop_pc = "cleared"
    /\ stop_pc' = "done"
    /\ server_socket' = IF server_socket = "None" THEN "None" ELSE "closed"
    /\ UNCHANGED <<process, server_running, apc, bgpc>>

(***************************************************************************)
(* Life cycle of the central server (term-project-after-rubric):  start(), *)
(* the server thread from bind() on, the loop test of the handlers and of  *)
(* the monitor, stop(), and the status label of the GUI, which shows the   *)
(* updates in the order update_server_status scheduled them.  No           *)
(* connection stays silent for timeout_seconds here, so the monitor's      *)
(* sweep finds nothing; the calls on the GUI do not raise.                 *)
(***************************************************************************)
VARIABLES
    c_server_running,  \* CentralServer.server_running
    start_pc,          \* position of start(): "init", "flag", "threads", "mainloop",
                       \* and "destroyed" once stop() has destroyed the window
    c_stop_pc,         \* position of stop()
    c_apc,             \* position of _start_server
    c_server_socket,   \* CentralServer.server_socket: "None", "unbound", "open",
                       \* "closed"
    mpc,               \* position of _monitor_connections
    status_queue,      \* statuses scheduled by update_server_status, not yet shown
    server_status,     \* text of the status label
    bind_failed        \* history: bind() raised

clifeVars == <<c_server_running, start_pc, c_stop_pc, c_apc, c_server_socket, mpc,
               status_queue, server_status, bind_failed>>

\* CentralServer.__init__ and the label as ServerGUI builds it
CLifeInit ==
    /\ c_server_running = FALSE
    /\ start_pc = "init"
    /\ c_stop_pc = "idle"
    /\ c_apc = "unstarted"
    /\ c_server_socket = "None"
    /\ mpc = "unstarted"
    /\ status_queue = <<>>
    /\ server_status = "Initializing..."
    /\ bind_failed = FALSE

\* start(): self.server_running = True
CentralStartFlag ==
    /\ process = "none"
    /\ process' = "central"
    /\ start_pc = "init"
    /\ start_pc' = "flag"
    /\ c_server_running' = TRUE
    /\ UNCHANGED <<c_stop_pc, c_apc, c_server_socket, mpc, status_queue,
                   server_status, bind_failed>>

\* start(): the server thread and the monitor thread are started
CentralStartThreads ==
    /\ start_pc = "flag"
    /\ start_pc' = "threads"
    /\ c_apc' = "bind"
    /\ mpc' = "top"
    /\ UNCHANGED <<c_server_running, c_stop_pc, c_server_socket, status_queue,
                   server_status, bind_failed>>

\* start(): gui.update_server_status("Running", ...), then mainloop()
CentralStartStatus ==
    /\ start_pc = "threads"
    /\ start_pc' = "mainloop"
    /\ status_queue' = Append(status_queue, "Running")
    /\ UNCHANGED <<c_server_running, c_stop_pc, c_apc, c_server_socket, mpc,
                   server_status, bind_failed>>

\* the main loop runs the oldest scheduled _update_status_display
GuiUpdateStatus ==
    /\ start_pc = "mainloop"
    /\ status_queue # <<>>
    /\ server_status' = Head(status_queue)
    /\ status_queue' = Tail(status_queue)
    /\ UNCHANGED <<c_server_running, start_pc, c_stop_pc, c_apc, c_server_socket,
                   mpc, bind_failed>>

\* _start_server: where the thread goes when bind() raises: to the outer
\* "except Exception"
AfterBindFailure == "failed"

\* _start_server: socket(), bind() and listen()
CentralBind(ok) ==
    /\ c_apc = "bind"
    /\ IF ok
       THEN /\ c_apc' = "top"
            /\ c_server_socket' = "open"
            /\ UNCHANGED bind_failed
       ELSE /\ c_apc' = AfterBindFailure
            /\ c_server_socket' = "unbound"
            /\ bind_failed' = TRUE
    /\ UNCHANGED <<c_server_running, start_pc, c_stop_pc, mpc, status_queue,
                   server_status>>

\* _start_server, the outer handler: update_server_status("Error", ...),
\* server_running = False, and the finally clause
CentralBindFailed ==
    /\ c_apc = "failed"
    /\ status_queue' = Append(status_queue, "Error")
    /\ c_server_running' = FALSE
    /\ c_server_socket' = "closed"
    /\ c_apc' = "exited"
    /\ UNCHANGED <<start_pc, c_stop_pc, mpc, server_status, bind_failed>>

\* _start_server: "while self.server_running"; the finally clause
CentralLoopTest ==
    /\ c_apc = "top"
    /\ IF c_server_running
       THEN c_apc' = "accept" /\ UNCHANGED c_server_socket
       ELSE c_apc' = "exited" /\ c_server_socket' = "closed"
    /\ UNCHANGED <<c_server_running, start_pc, c_stop_pc, mpc, status_queue,
                   server_status, bind_failed>>

\* accept() returns a connection
CentralAcceptReturn(addr) ==
    /\ c_apc = "accept"
    /\ c_server_socket = "open"
    /\ chpc[addr] = "unconnected"
    /\ chpc' = [chpc EXCEPT ![addr] = "accepted"]
    /\ c_apc' = "register"
    /\ UNCHANGED <<c_server_running, start_pc, c_stop_pc, c_server_socket, mpc,
                   status_queue, server_status, bind_failed>>
    /\ UNCHANGED <<c_active_connections, c_sock_closed, ch_drone_id, ch_line,
                   drone_statuses, c_anomalies, last_anomaly_report, forwarded,
                   nextSweep, handed>>

\* the record is stored under the lock, the status updated, the handler
\* thread started
CentralRegister(addr) ==
    /\ c_apc = "register"
    /\ chpc[addr] = "accepted"
    /\ c_active_connections' =
           Append(DelAddr(c_active_connections, addr),
                  [addr |-> addr, connection |-> addr, last_active |-> now,
                   drone_id |-> NoDrone])
    /\ status_queue' = Append(status_queue, "Running")
    /\ chpc' = [chpc EXCEPT ![addr] = "top"]
    /\ c_apc' = "top"
    /\ UNCHANGED <<c_server_running, start_pc, c_stop_pc, c_server_socket, mpc,
                   server_status, bind_failed>>
    /\ UNCHANGED <<c_sock_closed, ch_drone_id, ch_line, drone_statuses, c_anomalies,
                   last_anomaly_report, forwarded, nextSweep, handed>>

\* accept() times out after a second, or raises on the closed socket
CentralAcceptNone ==
    /\ c_apc = "accept"
    /\ c_apc' = "top"
    /\ UNCHANGED <<c_server_running, start_pc, c_stop_pc, c_server_socket, mpc,
                   status_queue, server_status, bind_failed>>

\* a handler loop that does not look at the flag
AfterLoopTestIgnoringFlag(flag) == "recv"

\* _handle_client: "while self.server_running": into the body, or out to
\* the finally block
AfterLoopTest(flag) == IF flag THEN "recv" ELSE "finally"

\* _handle_client: "while self.server_running"
CentralHandlerLoopTest(addr) ==
    /\ chpc[addr] = "top"
    /\ chpc' = [chpc EXCEPT ![addr] = AfterLoopTest(c_server_running)]
    /\ UNCHANGED <<c_active_connections, c_sock_closed, ch_drone_id, ch_line,
                   drone_statuses, c_anomalies, last_anomaly_report, forwarded,
                   nextSweep, handed>>

\* _handle_client: recv returns data (last_active is refreshed and the
\* lines are processed), or times out: on to the loop test
CentralHandlerRecv(addr, timed_out) ==
    /\ chpc[addr] = "recv"
    /\ addr \notin c_sock_closed
    /\ c_active_connections' =
           IF ~timed_out /\ HasAddr(c_active_connections, addr)
           THEN SetField(c_active_connections, addr, "last_active", now)
           ELSE c_active_connections
    /\ chpc' = [chpc EXCEPT ![addr] = "top"]
    /\ UNCHANGED <<c_sock_closed, ch_drone_id, ch_line, drone_statuses, c_anomalies,
                   last_anomaly_report, forwarded, nextSweep, handed>>

\* _handle_client: recv returns no data or raises: break
CentralHandlerBreak(addr) ==
    /\ chpc[addr] = "recv"
    /\ chpc' = [chpc EXCEPT ![addr] = "finally"]
    /\ UNCHANGED <<c_active_connections, c_sock_closed, ch_drone_id, ch_line,
                   drone_statuses, c_anomalies, last_anomaly_report, forwarded,
                   nextSweep, handed>>

\* _handle_client, the finally block: the record is removed under the lock,
\* the status updated, and the socket closed inside its own try; close_ok
\* says whether close() returned or raised
CentralHandlerFinally(addr, close_ok) ==
    /\ chpc[addr] = "finally"
    /\ c_active_connections' = DelAddr(c_active_connections, addr)
    /\ status_queue' = Append(status_queue, "Running")
    /\ c_sock_closed' = c_sock_closed \cup {addr}
    /\ chpc' = [chpc EXCEPT ![addr] = "exited"]
    /\ UNCHANGED <<c_server_running, start_pc, c_stop_pc, c_apc, c_server_socket,
                   mpc, server_status, bind_failed>>
    /\ UNCHANGED <<ch_drone_id, ch_line, drone_statuses, c_anomalies,
                   last_anomaly_report, forwarded, nextSweep, handed>>

\* _monitor_connections: "while self.server_running", the sleep, and the
\* second test after it
CentralMonitorStep ==
    /\ mpc \in {"top", "sleep"}
    /\ mpc' = IF ~c_server_running THEN "exited"
              ELSE IF mpc = "top" THEN "sleep" ELSE "top"
    /\ UNCHANGED <<c_server_running, start_pc, c_stop_pc, c_apc, c_server_socket,
                   status_queue, server_status, bind_failed>>

\* stop(), called from the main loop: server_running = False
CentralStopFlag ==
    /\ start_pc = "mainloop"
    /\ c_stop_pc = "idle"
    /\ c_server_running' = FALSE
    /\ c_stop_pc' = "flag"
    /\ UNCHANGED <<start_pc, c_apc, c_server_socket, mpc, status_queue,
                   server_status, bind_failed>>

\* stop(): under the lock, shut down and close every connection and
\* delete its record
CentralStopConnections ==
    /\ c_stop_pc = "flag"
    /\ c_stop_pc' = "cleared"
    /\ c_sock_closed' = c_sock_closed \cup
           {c_active_connections[i].connection : i \in 1..Len(c_active_connections)}
    /\ c_active_connections' = <<>>
    /\ UNCHANGED <<c_server_running, start_pc, c_apc, c_server_socket, mpc,
                   status_queue, server_status, bind_failed>>
    /\ UNCHANGED <<chpc, ch_drone_id, ch_line, drone_statuses, c_anomalies,
                   last_anomaly_report, forwarded, nextSweep, handed>>

\* stop(): the listening socket is closed, "Stopped" is scheduled, and the
\* window destroyed
CentralStopWindow ==
    /\ c_stop_pc = "cleared"
    /\ c_stop_pc' = "done"
    /\ c_server_socket' = IF c_server_socket = "None" THEN "None" ELSE "closed"
    /\ status_queue' = Append(status_queue, "Stopped")
    /\ start_pc' = "destroyed"
    /\ UNCHANGED <<c_server_running, c_apc, mpc, server_status, bind_failed>>

(***************************************************************************)
(* The battery loop as the scheduler runs it (phase-2/drone_server.py,     *)
(* _manage_battery): an iteration every 0.1 s, far more often than the     *)
(* clock of the model ticks.  While the drone is away the iterations       *)
(* between two ticks see the same time and change nothing, so one of them  *)
(* is taken; the clock ticks only after the loop has run.                  *)
(***************************************************************************)
VARIABLE
    loop_ran    \* the battery loop has completed an iteration since the last tick

\* _manage_battery: charge() or consume(); consume() is called for the
\* bounded number of iterations of a behaviour
FairLoopDrain ==
    /\ IF last_state.returning_to_base THEN ~loop_ran ELSE loops < MaxBatteryLoops
    /\ BatteryLoopDrainBody
    /\ UNCHANGED loop_ran

\* _manage_battery: the end of an iteration
FairLoopEvict ==
    /\ BatteryLoopEvict
    /\ loop_ran' = TRUE

\* seconds that pass in Normal mode, where the battery does not look at the
\* clock
MaxIdleTime == 10

\* seconds of a behaviour; longer than the idle time, the flight back and a
\* full charge together
MaxAwayTime == 60

\* time passes; in Normal mode up to MaxIdleTime, and on while the drone is
\* away
FairTick ==
    /\ loop_ran
    /\ now + TickSeconds <= (IF Mode = "Normal" THEN MaxIdleTime ELSE MaxAwayTime)
    /\ now' = now + TickSeconds
    /\ loop_ran' = FALSE

(***************************************************************************)
(* The connection count of the central server                              *)
(* (term-project-after-rubric/central_server.py): each thread that changes *)
(* active_connections leaves the lock, reads len(active_connections) and   *)
(* calls update_server_status, which schedules _update_status_display on   *)
(* the GUI thread.                                                         *)
(***************************************************************************)
VARIABLES
    cnt_pc,            \* per reporting thread: "idle", "read" (about to read len) or "call"
    active_count,      \* per reporting thread: the len(active_connections) it read, 0 once used
    accepted,          \* the address the accept loop has registered and not yet started
    update_queue,      \* counts scheduled with root.after and not yet displayed
    connection_count,  \* ServerGUI.connection_count: the number displayed
    stale              \* history: the registry changed while a thread held a count it had read

countVars == <<cnt_pc, active_count, accepted, update_queue, connection_count, stale>>

(***************************************************************************)
(* The locks of both servers: which thread holds which lock, and where     *)
(* each thread stands in the locked and unlocked statements of the         *)
(* operation it runs.                                                      *)
(***************************************************************************)
VARIABLES
    sync_op,     \* per thread: the operation it runs, or "idle"
    sync_pc,     \* per thread: the statement of that operation it is about to run
    lock_owner,  \* per lock: the thread inside `with lock:`, or "free"
    sync_tier    \* the process observed: "central", "edge", or "none" before the first step

syncVars == <<sync_op, sync_pc, lock_owner, sync_tier>>

\* the variables added last
lateVars == <<loop_ran, countVars, syncVars>>

\* the threads that report the connection count: start() on the main thread,
\* the accept loop, the monitor and one handler per connection
CountThreads == {"main", "accept", "monitor"} \cup CentralAddrs

NoAddr == "none"

\* start() has started the two threads and is about to read the count
CountInit ==
    /\ cnt_pc = [th \in CountThreads |-> IF th = "main" THEN "read" ELSE "idle"]
    /\ active_count = [th \in CountThreads |-> 0]
    /\ accepted = NoAddr
    /\ update_queue = <<>>
    /\ connection_count = 0
    /\ stale = FALSE

\* the threads of the central server: main (GUI) thread, accept loop, two
\* handlers, monitor
CentralThreads == {"c_main", "c_accept", "c_h1", "c_h2", "c_monitor"}

\* the threads of the edge server: main (GUI) thread, accept loop, a handler,
\* queue consumer, battery loop, uplink loop (the node-status loop makes the
\* same check_status call as the accept loop)
EdgeThreads == {"e_main", "e_accept", "e_h1", "e_consumer", "e_battery", "e_uplink"}

SyncThreads == CentralThreads \cup EdgeThreads

\* CentralServer.connection_lock, ServerGUI.update_lock, DroneServer.connection_lock,
\* EdgeProcessor.lock, BatteryManager.lock, DroneClient.lock
Locks == {"c_connection_lock", "update_lock", "connection_lock",
          "edge_lock", "battery_lock", "uplink_lock"}

\* no thread runs and no lock is held
SyncInit ==
    /\ sync_op = [t \in SyncThreads |-> "idle"]
    /\ sync_pc = [t \in SyncThreads |-> 0]
    /\ lock_owner = [l \in Locks |-> "free"]
    /\ sync_tier = "none"

LateInit ==
    /\ loop_ran = FALSE
    /\ CountInit
    /\ SyncInit

\* the variables of the components below, left alone by the specifications
\* of the components above
restVars == <<cmVars, data_stream_active, offered, clientVars, nodeVars, framingVars, lifeVars, clifeVars, lateVars>>

RestInit ==
    /\ CmInit
    /\ data_stream_active = TRUE
    /\ offered = 0
    /\ ClientInit
    /\ NodeInit
    /\ FramingInit
    /\ LifeInit
    /\ CLifeInit
    /\ LateInit

(***************************************************************************)
(* Specifications                                                          *)
(***************************************************************************)
vars == <<edgeVars, battVars, now, droneVars, centralVars, netVars, p2Vars, restVars>>

Init ==
    /\ EdgeInit
    /\ BatteryInit
    /\ now = 0
    /\ DroneInit
    /\ CentralInit
    /\ NetInit
    /\ P2Init
    /\ RestInit

centralSide == <<centralVars, netVars, p2Vars>>

\* EdgeProcessor alone, its two locked operations called in any order
EdgeNext ==
    \/ UpdateReadingsStep /\ UNCHANGED <<restVars, battVars, now, droneVars, centralSide>>
    \/ compute_averages /\ UNCHANGED <<restVars, battVars, now, droneVars, centralSide>>

SpecEdge == Init /\ [][EdgeNext]_vars

\* EdgeProcessor fed a stream of readings longer than its limits
EdgeStreamNext ==
    \/ StreamReading /\ UNCHANGED <<restVars, battVars, now, droneVars, centralSide>>

SpecEdgeStream == Init /\ [][EdgeStreamNext]_vars

\* BatteryManager alone, its four operations called in any order as time passes
BatteryNext ==
    \/ consume /\ UNCHANGED <<restVars, edgeVars, now, droneVars, centralSide>>
    \/ charge /\ UNCHANGED <<restVars, edgeVars, now, droneVars, centralSide>>
    \/ check_status /\ UNCHANGED <<restVars, edgeVars, now, droneVars, centralSide>>
    \/ SetThresholdStep /\ UNCHANGED <<restVars, edgeVars, now, droneVars, centralSide>>
    \/ Tick /\ UNCHANGED <<restVars, edgeVars, battVars, droneVars, centralSide>>

SpecBattery == Init /\ [][BatteryNext]_vars

\* as Init, with the battery constructed at any of the initial levels
InitAnyLevel ==
    /\ EdgeInit
    /\ \E l \in LevelInputs : BatteryInitWith(l)
    /\ now = 0
    /\ DroneInit
    /\ CentralInit
    /\ NetInit
    /\ P2Init
    /\ RestInit

\* BatteryManager from any initial level, over more than one cycle
BatteryCyclesNext ==
    \/ consume /\ UNCHANGED <<restVars, edgeVars, now, droneVars, centralSide>>
    \/ charge /\ UNCHANGED <<restVars, edgeVars, now, droneVars, centralSide>>
    \/ check_status /\ UNCHANGED <<restVars, edgeVars, now, droneVars, centralSide>>
    \/ SetThresholdStep /\ UNCHANGED <<restVars, edgeVars, now, droneVars, centralSide>>
    \/ CycleTick /\ UNCHANGED <<restVars, edgeVars, battVars, droneVars, centralSide>>

SpecBatteryCycles == InitAnyLevel /\ [][BatteryCyclesNext]_vars

\* the edge server: accept loop, handlers, queue consumer, battery loop and
\* the threshold setting of the GUI, interleaved as time passes
DroneNext ==
    \/ \E addr \in SensorAddrs :
           Accept(addr) /\ UNCHANGED <<restVars, edgeVars, battVars, now, centralSide>>
    \/ \E addr \in SensorAddrs :
           HandlerRegister(addr) /\ UNCHANGED <<restVars, edgeVars, battVars, now, centralSide>>
    \/ \E addr \in SensorAddrs :
           HandlerCheckBattery(addr) /\ UNCHANGED <<restVars, edgeVars, battVars, now, centralSide>>
    \/ \E addr \in SensorAddrs : \E sensor_data \in SampleReadings(addr) :
           HandlerRecvData(addr, sensor_data)
           /\ UNCHANGED <<restVars, edgeVars, battVars, now, centralSide>>
    \/ \E addr \in SensorAddrs :
           HandlerRecvFail(addr) /\ UNCHANGED <<restVars, edgeVars, battVars, now, centralSide>>
    \/ \E addr \in SensorAddrs :
           HandlerCleanup(addr) /\ UNCHANGED <<restVars, edgeVars, battVars, now, centralSide>>
    \/ ProcessCheck /\ UNCHANGED <<restVars, now, centralSide>>
    \/ ProcessGet /\ UNCHANGED <<restVars, now, centralSide>>
    \/ BatteryLoopDrain /\ UNCHANGED <<restVars, edgeVars, now, centralSide>>
    \/ BatteryLoopStatus /\ UNCHANGED <<restVars, edgeVars, battVars, now, centralSide>>
    \/ BatteryLoopEvict /\ UNCHANGED <<restVars, edgeVars, battVars, now, centralSide>>
    \/ Tick /\ UNCHANGED <<restVars, edgeVars, battVars, droneVars, centralSide>>

SpecDrone == Init /\ [][DroneNext]_vars

edgeSide == <<edgeVars, battVars, droneVars>>

\* the anomalies drones report
AnomalyPool ==
    {[sensor_id |-> "s1", issue |-> "temperature_too_high", value |-> 95,
      timestamp |-> 1],
     [sensor_id |-> "s1", issue |-> "temperature_too_high", value |-> 95,
      timestamp |-> 2],
     [sensor_id |-> "s1", issue |-> "temperature_too_high", value |-> 97,
      timestamp |-> 2],
     [sensor_id |-> "s2", issue |-> "humidity_too_low", value |-> 15,
      timestamp |-> 1]}

AnomalyLists ==
    {<<>>} \cup {<<a>> : a \in AnomalyPool}
           \cup {l \in AnomalyPool \X AnomalyPool :
                    l[1].sensor_id # l[2].sensor_id /\ l[1].timestamp = l[2].timestamp}

\* status and battery level of the reports: normal, low battery, charging
StatusKinds == {<<"normal", 50>>, <<"normal", 15>>, <<"charging", 50>>}

\* the drone connected under each address
DroneAt == [c1 |-> "d1", c2 |-> "d2"]

DedupReports(addr) ==
    {[drone_id |-> DroneAt[addr], status |-> k[1], battery_level |-> k[2],
      anomalies |-> l] : k \in StatusKinds, l \in AnomalyLists}

\* the central server receiving the reports of two drones, each over its
\* connection
DedupNext ==
    \/ \E addr \in DOMAIN DroneAt :
           CentralAccept(addr) /\ UNCHANGED <<restVars, edgeSide, now, netVars, p2Vars>>
    \/ \E addr \in DOMAIN DroneAt : \E report \in DedupReports(addr) :
           DroneSends(addr, report) /\ UNCHANGED <<restVars, edgeSide, now, p2Vars>>
    \/ \E addr \in DOMAIN DroneAt :
           CentralDispatch(addr) /\ UNCHANGED <<restVars, edgeSide, now, netVars, p2Vars>>

SpecDedup == Init /\ [][DedupNext]_vars

\* the readings the sensors deliver in the end-to-end runs
UplinkReadings ==
    {r \in SensorData :
        r.timestamp = 1 /\ r.temperature \in {20, 35} /\ r.humidity \in {15, 50}}

\* an edge server with a full battery margin and the central server: readings
\* arrive, the uplink loop reports, the handler of the uplink connection
\* processes the reports
EndToEndNext ==
    \/ \E sensor_data \in UplinkReadings :
           update_readings(sensor_data)
           /\ UNCHANGED <<restVars, battVars, now, droneVars, centralSide>>
    \/ CommunicateWithServer
           /\ UNCHANGED <<restVars, level, threshold, returning_to_base, charging,
                          returning_start_time, charging_start_time,
                          last_charge_time, charge_start_level,
                          now, droneVars, centralVars, p2Vars>>
    \/ CentralAccept(UplinkAddr) /\ UNCHANGED <<restVars, edgeSide, now, netVars, p2Vars>>
    \/ UplinkRecv /\ UNCHANGED <<restVars, edgeSide, now, p2Vars>>
    \/ CentralDispatch(UplinkAddr) /\ UNCHANGED <<restVars, edgeSide, now, netVars, p2Vars>>

SpecEndToEnd == Init /\ [][EndToEndNext]_vars

\* the reports of drones that carry no anomaly
QuietReport(d) ==
    [drone_id |-> d, status |-> "normal", battery_level |-> 50, anomalies |-> <<>>]

QuietReports == {QuietReport(d) : d \in DroneIds}

\* the central server: accept loop, handlers and connection monitor as time
\* passes
CentralNext ==
    \/ \E addr \in CentralAddrs :
           CentralAccept(addr) /\ UNCHANGED <<restVars, edgeSide, now, netVars, p2Vars>>
    \/ \E addr \in CentralAddrs : \E report \in QuietReports :
           CentralRecv(addr, report) /\ UNCHANGED <<restVars, edgeSide, now, netVars, p2Vars>>
    \/ \E addr \in CentralAddrs :
           CentralDispatch(addr) /\ UNCHANGED <<restVars, edgeSide, now, netVars, p2Vars>>
    \/ \E addr \in CentralAddrs :
           CentralHandlerExit(addr) /\ UNCHANGED <<restVars, edgeSide, now, netVars, p2Vars>>
    \/ MonitorSweep /\ UNCHANGED <<restVars, edgeSide, now, netVars, p2Vars>>
    \/ CentralTick /\ UNCHANGED <<restVars, edgeSide, centralSide>>

SpecCentral == Init /\ [][CentralNext]_vars

\* the phase-2 central server: accept loop, handlers, connection monitor and
\* the periodic refresh of the GUI as time passes
CentralP2Next ==
    \/ \E addr \in P2Addrs :
           CentralAccept(addr) /\ UNCHANGED <<restVars, edgeSide, now, netVars, p2Vars>>
    \/ \E addr \in P2Addrs :
           CentralRecv(addr, QuietReport(DroneAt[addr]))
           /\ UNCHANGED <<restVars, edgeSide, now, netVars, p2Vars>>
    \/ \E addr \in P2Addrs : P2Dispatch(addr) /\ UNCHANGED <<restVars, edgeSide, now, netVars>>
    \/ \E addr \in P2Addrs : P2HandlerExit(addr) /\ UNCHANGED <<restVars, edgeSide, now, netVars>>
    \/ P2MonitorSweep /\ UNCHANGED <<restVars, edgeSide, now, netVars>>
    \/ AutoUpdate /\ UNCHANGED <<restVars, edgeSide, now, netVars>>
    \/ P2Tick /\ UNCHANGED <<restVars, edgeSide, centralSide>>

SpecCentralP2 == Init /\ [][CentralP2Next]_vars

(***************************************************************************)
(* Properties                                                              *)
(***************************************************************************)

\* C1: every compute_averages call returns the mean temperature and the mean
\* humidity of exactly the readings added by update_readings since the
\* previous compute_averages call (each reading is counted in one call only),
\* and (0, 0) when no reading was added since then.
C1_AveragesOfNewReadings ==
    edgeOp = "compute_averages" =>
        /\ FracEq(averages[1], Mean(Temps(counted)))
        /\ FracEq(averages[2], Mean(Humidities(counted)))
        /\ counted = <<>> => averages = <<<<0, 1>>, <<0, 1>>>>

\* C1 witness: a second compute_averages call that averaged one new reading
\* while an older, already reported reading is still stored
C1_Witness ==
    /\ edgeOp = "compute_averages"
    /\ Len(counted) = 1
    /\ TotalReadings = 2

PriorityOrder ==
    <<"temperature_too_high", "temperature_too_low",
      "humidity_too_high", "humidity_too_low">>

\* the thresholds a reading breaches
Breaches(r) ==
    {i \in 1..4 :
        \/ i = 1 /\ r.temperature > temp_threshold_high
        \/ i = 2 /\ r.temperature < temp_threshold_low
        \/ i = 3 /\ r.humidity > humidity_threshold_high
        \/ i = 4 /\ r.humidity < humidity_threshold_low}

FirstBreach(r) == CHOOSE i \in Breaches(r) : \A j \in Breaches(r) : i <= j

BreachValue(r, i) == IF i <= 2 THEN r.temperature ELSE r.humidity

\* C10: update_readings records at most one anomaly per reading; its issue is
\* the first breached threshold in the order temperature high, temperature
\* low, humidity high, humidity low; a reading within all thresholds records
\* none.
C10_FirstBreachOnly ==
    edgeOp = "update_readings" =>
        LET r == lastReading[1]
            added == Range(anomalies) \ Range(prevAnomalies)
        IN  /\ Cardinality(added) <= 1
            /\ Len(anomalies) <= Len(prevAnomalies) + 1
            /\ Breaches(r) = {} => anomalies = prevAnomalies
            /\ Breaches(r) # {} =>
                   LET i == FirstBreach(r)
                       expected == [sensor_id |-> r.sensor_id,
                                    issue |-> PriorityOrder[i],
                                    value |-> BreachValue(r, i),
                                    timestamp |-> r.timestamp]
                   IN  /\ expected \in Range(anomalies)
                       /\ added \subseteq {expected}

\* C10 witness: a reading breaching a temperature and a humidity threshold
\* was recorded
C10_Witness ==
    /\ edgeOp = "update_readings"
    /\ Cardinality(Breaches(lastReading[1])) = 2
    /\ Len(anomalies) = Len(prevAnomalies) + 1

AllowedModeChanges ==
    {<<"Normal", "Returning">>, <<"Returning", "Charging">>, <<"Charging", "Normal">>}

\* C4: under any sequence of consume, charge, set_threshold and check_status
\* calls the mode changes only Normal -> Returning, Returning -> Charging or
\* Charging -> Normal, and charging is never set without returning_to_base.
C4_ModeCycle ==
    /\ [](charging => returning_to_base)
    /\ [][Mode' = Mode \/ <<Mode, Mode'>> \in AllowedModeChanges]_vars

\* C5: in the battery loop iteration in which consume() returned True, the
\* step that ends the iteration has closed every socket registered in
\* active_connections and emptied the map.
C5_EvictOnReturn ==
    [][(bpc = "evict" /\ bpc' = "drain" /\ justReturned) =>
          /\ active_connections' = EmptyDict
          /\ \A a \in DOMAIN active_connections :
                 active_connections[a] \in sock_closed']_vars

\* C5 witness: an iteration whose consume() returned True has ended after
\* closing two registered connections
C5_Witness ==
    /\ justReturned
    /\ bpc = "drain"
    /\ Cardinality(evicted) = 2
    /\ active_connections = EmptyDict

\* C6: a connection accepted while the mode is Returning or Charging is
\* closed at once and is never registered nor given a handler; a connection
\* accepted while the mode is Normal is handed to a handler.
C6_AcceptGate ==
    \A a \in SensorAddrs :
        /\ acceptMode[a] \in {"Returning", "Charging"} =>
               /\ hpc[a] = "rejected"
               /\ a \in sock_closed
               /\ a \notin DOMAIN active_connections
        /\ acceptMode[a] = "Normal" =>
               hpc[a] \in {"spawned", "loop", "recv", "cleanup", "exited"}

\* C6 witness: one connection refused while Charging, another handed to a
\* handler while Normal
C6_Witness ==
    \E a, b \in SensorAddrs :
        /\ acceptMode[a] = "Charging" /\ hpc[a] = "rejected"
        /\ acceptMode[b] = "Normal" /\ hpc[b] = "loop"

\* C4 witness: the charge() call that completed a cycle and resumed Normal
C4_Witness ==
    /\ battOp = "charge"
    /\ Mode = "Normal"
    /\ level = ChargeTarget

\* the number of elements of xs satisfying Test
Count(xs, Test(_)) == Cardinality({i \in 1..Len(xs) : Test(xs[i])})

A95 == [sensor_id |-> "s1", issue |-> "temperature_too_high", value |-> 95,
        timestamp |-> 1]

A95Again == [A95 EXCEPT !.timestamp = 2]

A97 == [A95 EXCEPT !.value = 97, !.timestamp = 2]

\* C2: when a report whose anomaly list holds a single anomaly reaches
\* add_anomalies and the previous list handed over for the same drone held
\* the same single anomaly (same sensor_id, issue and value), nothing is
\* appended to the history nor forwarded; when the previous single anomaly
\* had the same (sensor_id, issue) and another value, or the drone never
\* reported an anomaly before, the anomaly is appended and forwarded once.
C2_SingleAnomalyDedup ==
    [][\A addr \in CentralAddrs :
          (chpc[addr] = "dispatch" /\ chpc'[addr] = "recv") =>
              LET report == ch_line[addr][1]
                  d == report.drone_id
              IN  (HandsAnomalies(report) /\ Len(report.anomalies) = 1) =>
                      LET a == report.anomalies[1]
                          entry == AnomalyEntry(a, d)
                          appendedOnce ==
                              /\ c_anomalies' = Append(c_anomalies, entry)
                              /\ forwarded' = Append(forwarded, entry)
                          dropped ==
                              /\ c_anomalies' = c_anomalies
                              /\ forwarded' = forwarded
                          before == DictGet(handed, d, <<>>)
                      IN  /\ before = <<>> => appendedOnce
                          /\ (before # <<>> /\ Len(before[Len(before)]) = 1) =>
                                 LET p == before[Len(before)][1]
                                 IN  /\ (AnomalyKey(p) = AnomalyKey(a)
                                         /\ p.value = a.value) => dropped
                                     /\ (AnomalyKey(p) = AnomalyKey(a)
                                         /\ p.value # a.value) => appendedOnce]_vars

\* C2 witness: drone d1 reported value 95 twice and then 97 for the same
\* sensor and issue; the history and the consumers hold 95 once and 97 once
C2_Witness ==
    /\ DictGet(handed, "d1", <<>>) = << <<A95>>, <<A95Again>>, <<A97>> >>
    /\ c_anomalies = <<AnomalyEntry(A95, "d1"), AnomalyEntry(A97, "d1")>>
    /\ forwarded = c_anomalies

\* C3: once the central server has processed every report sent and the
\* last one carried the edge's current anomaly list, each anomaly of that
\* list occurs once in the list, once in the central history and once among
\* the entries forwarded to the consumers.
C3_SnapshotOnce ==
    (/\ wire = <<>>
     /\ chpc[UplinkAddr] = "recv"
     /\ anomalies # <<>>
     /\ DictGet(handed, UplinkDroneId, <<>>) # <<>>
     /\ handed[UplinkDroneId][Len(handed[UplinkDroneId])] = anomalies)
    => \A i \in 1..Len(anomalies) :
           LET entry == AnomalyEntry(anomalies[i], UplinkDroneId)
           IN  /\ Count(anomalies, LAMBDA x : x = anomalies[i]) = 1
               /\ Count(c_anomalies, LAMBDA x : x = entry) = 1
               /\ Count(forwarded, LAMBDA x : x = entry) = 1

\* C7: the phase-2 history never holds more connection_lost anomalies for a
\* drone than connections of that drone were made, so that the loss of a
\* connection accounts for one anomaly and never for a second one.
C7_OneConnectionLost ==
    \A d \in DroneIds \cup {NoDrone} :
        Count(all_anomalies,
              LAMBDA x : x.issue = "connection_lost" /\ x.drone_id = d)
        <= Cardinality({a \in P2Addrs : chpc[a] # "unconnected" /\ ch_drone_id[a] = d})

EvictedBySweep(a) ==
    /\ a \in c_sock_closed
    /\ chpc[a] \in {"recv", "dispatch"}
    /\ ~HasAddr(c_active_connections, a)

C9_LostOnlyIfNoOtherRecord ==
    [][nextSweep' # nextSweep =>
          \A d \in DroneIds \cup {NoDrone} :
              LET lost == \E i \in (Len(c_anomalies) + 1)..Len(c_anomalies') :
                              /\ c_anomalies'[i].issue = "connection_lost"
                              /\ c_anomalies'[i].drone_id = d
                  marked == /\ DictGet(drone_statuses', d, "") = "Disconnected"
                            /\ DictGet(drone_statuses, d, "") # "Disconnected"
              IN  (lost \/ marked) => ~StillConnected(c_active_connections', d)]_vars

\* C9 witness: the pass that just ran evicted a connection of a drone that
\* has a younger connection; the drone is not marked and has no anomaly
C9_Witness ==
    /\ nextSweep = now + cleanup_interval
    /\ \E a \in CentralAddrs : \E d \in DroneIds :
           /\ EvictedBySweep(a)
           /\ ch_drone_id[a] = d
           /\ StillConnected(c_active_connections, d)
           /\ DictGet(drone_statuses, d, "") = "normal"
           /\ c_anomalies = <<>>

\* the anomaly a reading that breaches a threshold stands for
ExpectedAnomaly(r) ==
    [sensor_id |-> r.sensor_id, issue |-> PriorityOrder[FirstBreach(r)],
     value |-> BreachValue(r, FirstBreach(r)), timestamp |-> r.timestamp]

\* C11: the edge anomaly list never holds two entries with the same
\* (sensor_id, issue, value, timestamp), and an update_readings call whose
\* reading stands for an anomaly already in the list leaves the list as it
\* was.
C11_NoDuplicateAnomaly ==
    /\ \A i, j \in 1..Len(anomalies) : anomalies[i] = anomalies[j] => i = j
    /\ (/\ edgeOp = "update_readings"
        /\ Breaches(lastReading[1]) # {}
        /\ ExpectedAnomaly(lastReading[1]) \in Range(prevAnomalies))
       => anomalies = prevAnomalies

\* C11 witness: the same breaching reading was submitted twice and the list
\* holds its anomaly once
C11_Witness ==
    /\ edgeOp = "update_readings"
    /\ Breaches(lastReading[1]) # {}
    /\ prevAnomalies = <<ExpectedAnomaly(lastReading[1])>>
    /\ anomalies = prevAnomalies

\* C12: the edge anomaly list never holds more than 10 entries; when an
\* update_readings call appends to a list of 10, the first entry is dropped
\* and the others follow in their order, the new anomaly last.
C12_AnomalyCap ==
    /\ Len(anomalies) <= AnomalyCap
    /\ (/\ edgeOp = "update_readings"
        /\ Len(prevAnomalies) = AnomalyCap
        /\ Breaches(lastReading[1]) # {}
        /\ ExpectedAnomaly(lastReading[1]) \notin Range(prevAnomalies))
       => anomalies = Append(Tail(prevAnomalies), ExpectedAnomaly(lastReading[1]))

\* C12 witness: an eleventh anomaly was appended to a list of ten
C12_Witness ==
    /\ edgeOp = "update_readings"
    /\ Len(prevAnomalies) = AnomalyCap
    /\ Len(anomalies) = AnomalyCap
    /\ anomalies # prevAnomalies

\* C13: the list stored for each sensor id holds at most window_size
\* readings.
C13_WindowBounded ==
    \A s \in DOMAIN readings : Len(readings[s]) <= window_size

\* a step that is a call of the named BatteryManager operation
BatteryCall(op) == battOp' = op /\ now' = now

\* C14: a consume() call returns True exactly when it moves the mode from
\* Normal to Returning, which is when it is made in Normal mode and leaves
\* the level strictly below the threshold (a level equal to the threshold
\* stays Normal); made in Returning or Charging mode it returns False and
\* changes neither the level nor the mode.
C14_ConsumeSignalsReturn ==
    [][BatteryCall("consume") =>
          /\ battResult' = TRUE <=> (Mode = "Normal" /\ Mode' = "Returning")
          /\ battResult' = TRUE <=> (Mode = "Normal" /\ level' < threshold)
          /\ (Mode = "Normal" /\ level' = threshold) => Mode' = "Normal"
          /\ Mode # "Normal" =>
                 /\ battResult' = FALSE
                 /\ level' = level
                 /\ Mode' = Mode]_vars

\* C14 witness: from level 25 with threshold 20 and rate 1, the consume()
\* call that reached level 19 returned True and entered Returning
C14_Witness ==
    /\ battOp = "consume"
    /\ battResult = TRUE
    /\ Mode = "Returning"
    /\ threshold = initial_threshold
    /\ level < threshold
    /\ level + consumption_rate >= threshold

\* C15: across every step the level does not increase when the step starts
\* in Normal mode, does not decrease when it starts in Charging mode and
\* does not change when it starts in Returning mode.
C15_LevelMonotoneByMode ==
    [][/\ Mode = "Normal" => level' <= level
       /\ Mode = "Charging" => level' >= level
       /\ Mode = "Returning" => level' = level]_vars

\* C15 witness: a charge() call raised the level during a charge that began
\* below the initial level, after consume() had drained it
C15_Witness ==
    /\ battOp = "charge"
    /\ Mode = "Charging"
    /\ charge_start_level < initial_level
    /\ level > charge_start_level

\* C16: the level stays within [0, 100] from any initial level in that
\* range, and is at most the charge target 80 whenever charging is set.
C16_LevelInRange ==
    /\ 0 <= level /\ level <= 100
    /\ charging => level <= ChargeTarget

\* C16 witness: consume() on an empty battery kept the level at 0
C16_Witness ==
    /\ battOp = "consume"
    /\ battResult = TRUE
    /\ level = 0

\* C18: the charge() call that brings the level to the charge target leaves
\* the mode Normal, returning_start_time and charging_start_time None,
\* charge_start_level 0 and last_charge_time removed; and no charging step
\* adds more than the charge of the time elapsed since the arrival at base
\* of its own cycle.
C18_ChargeCompleteClears ==
    [][/\ (BatteryCall("charge") /\ level < ChargeTarget /\ level' >= ChargeTarget) =>
              /\ Mode' = "Normal"
              /\ returning_start_time' = None
              /\ charging_start_time' = None
              /\ charge_start_level' = 0
              /\ last_charge_time' = None
       /\ (BatteryCall("charge") /\ Mode = "Charging" /\ level' > level) =>
              level' - level <= (now - charging_start_time[1]) * charging_rate]_vars

\* C18 witness: the charge() call that reached the target has returned and
\* nothing of the finished cycle is left
C18_Witness ==
    /\ battOp = "charge"
    /\ level = ChargeTarget
    /\ ~returning_to_base /\ ~charging
    /\ returning_start_time = None /\ charging_start_time = None
    /\ last_charge_time = None /\ charge_start_level = 0

\* C17: a charge() call made in Returning mode enters Charging only if at
\* least time_to_return has elapsed since returning_start_time; the call
\* that enters Charging records the current time as charging_start_time and
\* leaves the level as it was; a call made earlier changes neither the mode
\* nor the level.
C17_ArrivalAfterTransit ==
    [][(BatteryCall("charge") /\ Mode = "Returning") =>
          LET elapsed == now - returning_start_time[1]
          IN  /\ Mode' \in {"Returning", "Charging"}
              /\ Mode' = "Charging" =>
                     /\ elapsed >= time_to_return
                     /\ charging_start_time' = Some(now)
                     /\ level' = level
              /\ elapsed < time_to_return =>
                     /\ Mode' = "Returning"
                     /\ level' = level]_vars

\* C17 witness: the charge() call made once the transit time had elapsed
\* entered Charging at the level at which the drone returned
C17_Witness ==
    /\ battOp = "charge"
    /\ Mode = "Charging"
    /\ charging_start_time = Some(now)
    /\ now - returning_start_time[1] >= time_to_return
    /\ level = charge_start_level

\* C19: check_status() called in Returning mode, e seconds after the return
\* began, reports return_progress = min(100, 100*e/time_to_return) and
\* return_time_left = max(0, time_to_return - e); called in Charging mode
\* it reports charge_progress = min(100, 100*(level - charge_start_level) /
\* (80 - charge_start_level)) and charge_time_left =
\* max(0, (80 - level)/charging_rate).
C19_StatusProgress ==
    [][BatteryCall("check_status") =>
          /\ Mode = "Returning" =>
                LET e == now - returning_start_time[1]
                IN  /\ battResult'.return_progress # None
                    /\ battResult'.return_time_left # None
                    /\ FracEq(battResult'.return_progress[1],
                              FracMin(Frac(100, 1), Frac(100 * e, time_to_return)))
                    /\ FracEq(battResult'.return_time_left[1],
                              FracMax(Frac(0, 1), Frac(time_to_return - e, 1)))
          /\ Mode = "Charging" =>
                /\ battResult'.charge_progress # None
                /\ battResult'.charge_time_left # None
                /\ FracEq(battResult'.charge_progress[1],
                          FracMin(Frac(100, 1),
                                  Frac(100 * (level - charge_start_level),
                                       ChargeTarget - charge_start_level)))
                /\ FracEq(battResult'.charge_time_left[1],
                          FracMax(Frac(0, 1),
                                  Frac(ChargeTarget - level, charging_rate)))]_vars

\* C20: set_threshold(n) replaces the threshold with n when 5 <= n <= 50,
\* both bounds included; for n < 5 or n > 50 the threshold keeps its
\* previous value; in either case the level and the mode are unchanged and
\* the call completes.
C20_SetThresholdValidated ==
    [][BatteryCall("set_threshold") =>
          LET n == battArg'[1]
          IN  /\ (5 <= n /\ n <= 50) => threshold' = n
              /\ (n < 5 \/ n > 50) => threshold' = threshold
              /\ level' = level
              /\ Mode' = Mode]_vars

\* C20 witness: the upper bound 50 was accepted, and a later call with 51
\* was rejected and left it in place
C20_Witness ==
    /\ battOp = "set_threshold"
    /\ battArg = Some(51)
    /\ threshold = 50

\* C20 witness, lower bound: 5 was accepted, and a later call with 4 was
\* rejected and left it in place
C20_WitnessLow ==
    /\ battOp = "set_threshold"
    /\ battArg = Some(4)
    /\ threshold = 5

\* one reading per sensor, as far as registration is concerned
OneReadingOf(sensor_id) ==
    [sensor_id |-> sensor_id, temperature |-> 20, humidity |-> 50, timestamp |-> 1]

\* the edge server's handlers with the operator pausing the stream and
\* disconnecting nodes from the GUI; either sensor may be behind either
\* connection
ConnMgrNext ==
    \/ \E addr \in SensorAddrs :
           Accept(addr) /\ CmIdle
           /\ UNCHANGED <<edgeVars, battVars, now, centralSide, data_stream_active,
                          offered, clientVars, nodeVars, framingVars, lifeVars, clifeVars, lateVars>>
    \/ \E addr \in SensorAddrs :
           HandlerRegister(addr) /\ CmIdle
           /\ UNCHANGED <<edgeVars, battVars, now, centralSide, data_stream_active,
                          offered, clientVars, nodeVars, framingVars, lifeVars, clifeVars, lateVars>>
    \/ \E addr \in SensorAddrs :
           HandlerCheckBattery(addr) /\ CmIdle
           /\ UNCHANGED <<edgeVars, battVars, now, centralSide, data_stream_active,
                          offered, clientVars, nodeVars, framingVars, lifeVars, clifeVars, lateVars>>
    \/ \E addr \in SensorAddrs : \E sensor_id \in SensorIds :
           HandlerRecvPaused(addr, OneReadingOf(sensor_id)) /\ CmIdle
           /\ UNCHANGED <<edgeVars, battVars, now, centralSide, data_stream_active,
                          offered, clientVars, nodeVars, framingVars, lifeVars, clifeVars, lateVars>>
    \/ \E addr \in SensorAddrs :
           HandlerRecvFail(addr) /\ CmIdle
           /\ UNCHANGED <<edgeVars, battVars, now, centralSide, data_stream_active,
                          offered, clientVars, nodeVars, framingVars, lifeVars, clifeVars, lateVars>>
    \/ \E addr \in SensorAddrs :
           HandlerCleanup(addr) /\ CmIdle
           /\ UNCHANGED <<edgeVars, battVars, now, centralSide, data_stream_active,
                          offered, clientVars, nodeVars, framingVars, lifeVars, clifeVars, lateVars>>
    \/ toggle_data_stream /\ CmIdle
           /\ UNCHANGED <<edgeVars, battVars, now, droneVars, centralSide, offered,
                          clientVars, nodeVars, framingVars, lifeVars, clifeVars, lateVars>>
    \/ \E sensor_id \in DisconnectIds : \E close_ok \in BOOLEAN :
           disconnect_node(sensor_id, close_ok)
           /\ UNCHANGED <<edgeVars, battVars, now, centralSide, data_stream_active,
                          offered, clientVars, nodeVars, framingVars, lifeVars, clifeVars, lateVars>>

SpecConnMgr == Init /\ [][ConnMgrNext]_vars

\* C23: disconnect_node(id) returns True only when id is in node_to_addr and
\* its address is a key of active_connections, and then the socket has been
\* closed and the record removed; for an id that is unknown or whose address
\* is not registered it returns False and leaves active_connections as it
\* was; a call for the same id directly after a successful one returns False.
C23_DisconnectNode ==
    [][cmOp' = "disconnect_node" =>
          LET sensor_id == cmArg'[1]
              registered == /\ sensor_id \in DOMAIN node_to_addr
                            /\ node_to_addr[sensor_id] \in DOMAIN active_connections
          IN  /\ cmResult' = TRUE =>
                     /\ registered
                     /\ active_connections[node_to_addr[sensor_id]] \in sock_closed'
                     /\ node_to_addr[sensor_id] \notin DOMAIN active_connections'
              /\ ~registered =>
                     /\ cmResult' = FALSE
                     /\ active_connections' = active_connections
              /\ (cmOp = "disconnect_node" /\ cmArg = cmArg' /\ cmResult = TRUE) =>
                     cmResult' = FALSE]_vars

\* C23 witness: a second disconnect_node for a sensor directly after a
\* successful one returned False, while another connection is still registered
C23_Witness ==
    /\ cmOp = "disconnect_node"
    /\ cmResult = FALSE
    /\ cmArg # None
    /\ cmArg[1] \in DOMAIN node_to_addr
    /\ node_to_addr[cmArg[1]] \in sock_closed
    /\ node_to_addr[cmArg[1]] \notin DOMAIN active_connections
    /\ hpc[node_to_addr[cmArg[1]]] \in {"loop", "recv"}
    /\ active_connections # EmptyDict

\* the n-th reading of a steady stream: sensor s1, nothing anomalous
QueueReading(n) ==
    [sensor_id |-> "s1", temperature |-> 20, humidity |-> 50, timestamp |-> n]

\* handlers delivering a steady stream to a consumer that takes only
\* MaxReadings readings, so that the queue fills
QueueNext ==
    \/ \E addr \in SensorAddrs :
           Accept(addr) /\ UNCHANGED <<edgeVars, battVars, now, centralSide, restVars>>
    \/ \E addr \in SensorAddrs :
           HandlerRegister(addr)
           /\ UNCHANGED <<edgeVars, battVars, now, centralSide, restVars>>
    \/ \E addr \in SensorAddrs :
           HandlerCheckBattery(addr)
           /\ UNCHANGED <<edgeVars, battVars, now, centralSide, restVars>>
    \/ \E addr \in SensorAddrs :
           /\ data_stream_active
           /\ offered < MaxOffered
           /\ HandlerRecvDataBody(addr, QueueReading(offered + 1))
           /\ offered' = offered + 1
           /\ UNCHANGED <<edgeVars, battVars, now, centralSide, cmVars,
                          data_stream_active, clientVars, nodeVars, framingVars, lifeVars, clifeVars, lateVars>>
    \/ \E addr \in SensorAddrs :
           HandlerRecvFail(addr)
           /\ UNCHANGED <<edgeVars, battVars, now, centralSide, restVars>>
    \/ \E addr \in SensorAddrs :
           HandlerCleanup(addr)
           /\ UNCHANGED <<edgeVars, battVars, now, centralSide, restVars>>
    \/ ProcessCheck /\ UNCHANGED <<now, centralSide, restVars>>
    \/ ProcessGet /\ UNCHANGED <<now, centralSide, restVars>>

SpecQueue == Init /\ [][QueueNext]_vars

\* C24: data_queue never holds more than 100 readings; a handler that
\* offers a reading to the full queue leaves the queued readings as they
\* were (the offered reading is discarded) and is back at the top of its
\* loop in the same step.
C24_QueueBounded ==
    [][/\ Len(data_queue') <= 100
       /\ \A addr \in SensorAddrs :
              (hpc[addr] = "recv" /\ hpc'[addr] = "loop") =>
                  IF Len(data_queue) = 100
                  THEN data_queue' = data_queue
                  ELSE /\ Len(data_queue') = Len(data_queue) + 1
                       /\ SubSeq(data_queue', 1, Len(data_queue)) = data_queue]_vars

\* C24 witness: the queue is full, a reading later than the queued ones has
\* been offered and dropped, and the handler is at the top of its loop
C24_Witness ==
    /\ Len(data_queue) = 100
    /\ \E addr \in SensorAddrs :
           /\ hpc[addr] = "loop"
           /\ h_sensor_id[addr] = Some("s1")
    /\ offered > TotalReadings + Len(data_queue)

\* DroneClient alone: send_to_server called repeatedly against a central
\* server that may accept, refuse, reset or time out
ClientNext ==
    \/ \E connect_outcome \in ConnectOutcomes : \E write_outcome \in WriteOutcomes :
           send_to_server(connect_outcome, write_outcome)
           /\ UNCHANGED <<edgeSide, now, centralSide, cmVars, data_stream_active,
                          offered, nodeVars, framingVars, lifeVars, clifeVars, lateVars>>

SpecClient == Init /\ [][ClientNext]_vars

\* C25: send_to_server connects only when connected is False; when the
\* connect fails it returns False without writing; when the write fails,
\* whatever the failure, it sets connected to False and returns False, so
\* that the next call opens a new connection; no call connects or writes
\* twice.
C25_SendToServer ==
    [][dcCalls' = dcCalls + 1 =>
          /\ (dcConnect' # "none") <=> ~dc_connected
          /\ dcConnect' \in {"refused", "error"} =>
                 /\ dcResult' = "False"
                 /\ dcWrite' = "none"
          /\ dcWrite' \notin {"none", "ok"} =>
                 /\ dc_connected' = FALSE
                 /\ dcResult' = "False"
          /\ (dcWrite \notin {"none", "ok"}) => dcConnect' # "none"]_vars

\* the other components, as far as a sensor node is concerned
notNode == <<edgeSide, now, centralSide, cmVars, data_stream_active, offered,
             clientVars, framingVars, lifeVars, clifeVars, lateVars>>

\* a sensor process: run() on its main thread, the repair timer, SIGINT,
\* and the drone coming and going, as the seconds pass
NodeRunNext ==
    \/ RunStart /\ UNCHANGED notNode
    \/ HrEnter /\ UNCHANGED notNode
    \/ HrAttempt /\ UNCHANGED notNode
    \/ HrWake /\ UNCHANGED notNode
    \/ RunAfterInitial /\ UNCHANGED notNode
    \/ RunLoopTop /\ UNCHANGED notNode
    \/ RunAfterReconnect /\ UNCHANGED notNode
    \/ RunCollectSend /\ UNCHANGED notNode
    \/ RunWake /\ UNCHANGED notNode
    \/ RunInterrupt /\ UNCHANGED notNode
    \/ repair_sensor /\ UNCHANGED notNode
    \/ NodeTick /\ UNCHANGED notNode
    \/ DroneDown /\ UNCHANGED notNode
    \/ DroneUp /\ UNCHANGED notNode

SpecNodeRun == Init /\ [][NodeRunNext]_vars

\* C26: a handle_reconnection round that began with the node running and
\* not broken, during which every connect was refused, made exactly 5
\* attempts, slept 2, 4, 8, 16 and 32 seconds after attempts 1 to 5, and
\* returned False.
C26_ReconnectionBackoff ==
    (rpc = "done" /\ roundClean) =>
        /\ current_attempt = 5
        /\ waits = <<2, 4, 8, 16, 32>>
        /\ slept = 2 + 4 + 8 + 16 + 32
        /\ hrResult = FALSE

\* C26 witness: such a round has returned after its fifth sleep
C26_Witness ==
    /\ rpc = "done"
    /\ roundClean
    /\ running
    /\ ~is_broken
    /\ current_attempt = 5
    /\ Len(waits) = 5
    /\ slept = 62
    /\ hrResult = FALSE

\* the sensor process with its scheduling: the main thread is not starved,
\* the seconds pass, and the Timer thread runs when its time is up
SpecNodeRunFair ==
    /\ SpecNodeRun
    /\ WF_vars(NodeThread /\ UNCHANGED notNode)
    /\ WF_vars(NodeTick /\ UNCHANGED notNode)
    /\ WF_vars(repair_sensor /\ UNCHANGED notNode)

\* a reading has just been written to the socket
ReadingSent == nodeOp = "send_data" /\ nodeResult

\* C27: run() returns without stopping only when the initial connect and
\* the whole first reconnection round failed, and then no connection was
\* made and no reading sent; once a connection has been established run()
\* never returns that way, and as long as the node is not stopped it keeps
\* starting reconnection rounds while it has no connection; if moreover the
\* drone is reachable from some moment on, the node sends readings again
\* and again.
C27_RunGivesUpOrKeepsTrying ==
    /\ [](npc = "returned" => (~established /\ ~everSent /\ ~hrResult))
    /\ [](established => npc # "returned")
    /\ (<>established /\ [](npc # "stopped")) => []<>(connected \/ rpc = "enter")
    /\ (<>established /\ [](npc # "stopped") /\ <>[]drone_up) => []<>ReadingSent

\* C27 witness: after the drone went away and at least one attempt of a
\* reconnection round was refused, the node has reconnected and has just
\* sent a reading
C27_Witness ==
    /\ ReadingSent
    /\ established
    /\ outages >= 1
    /\ Len(waits) >= 1
    /\ npc = "sleep"

\* the loop sleeping 10 seconds after a later round that failed wholly
C27_LaterRoundFailed ==
    /\ established
    /\ npc = "sleep"
    /\ sleep_left = RetrySleep
    /\ Len(waits) = 5
    /\ ~is_broken

\* run() has given up after the first round
C27_GaveUp == npc = "returned" /\ Len(waits) = 5

\* the node object driven method by method, with its Timer thread, the
\* seconds passing, and the drone coming and going
NodeApiNext ==
    \/ ApiStart /\ UNCHANGED notNode
    \/ ApiConnect /\ UNCHANGED notNode
    \/ ApiCollect /\ UNCHANGED notNode
    \/ ApiSend /\ UNCHANGED notNode
    \/ ApiSimulateFailure /\ UNCHANGED notNode
    \/ ApiReconnectCall /\ UNCHANGED notNode
    \/ HrEnter /\ UNCHANGED notNode
    \/ HrAttempt /\ UNCHANGED notNode
    \/ HrWake /\ UNCHANGED notNode
    \/ ApiReconnectReturn /\ UNCHANGED notNode
    \/ ApiStop /\ UNCHANGED notNode
    \/ repair_sensor /\ UNCHANGED notNode
    \/ NodeTick /\ UNCHANGED notNode
    \/ DroneDown /\ UNCHANGED notNode
    \/ DroneUp /\ UNCHANGED notNode

\* a thread inside handle_reconnection goes on running
InReconnection == HrEnter \/ HrAttempt \/ HrWake

SpecNodeApi ==
    /\ Init
    /\ [][NodeApiNext]_vars
    /\ WF_vars(InReconnection /\ UNCHANGED notNode)
    /\ WF_vars(NodeTick /\ UNCHANGED notNode)
    /\ WF_vars(repair_sensor /\ UNCHANGED notNode)

\* C28: a call of connect_to_drone, send_data or handle_reconnection made
\* while the node is broken returns False, collect_environmental_data then
\* returns no reading, and no step taken while broken writes a reading to
\* the socket; the flag is set together with a timer of repair_time seconds
\* and is cleared only by that timer when its time is up; and a broken node
\* is eventually repaired or stopped.
C28_BrokenUntilRepaired ==
    /\ [][is_broken =>
            /\ nodeOp' \in {"connect_to_drone", "send_data", "handle_reconnection",
                            "collect_environmental_data"} => nodeResult' = FALSE
            /\ (rpc = "enter" /\ rpc' # "enter") =>
                   (rpc' = "done" /\ hrResult' = FALSE)
            /\ ~ReadingSent'
            /\ everSent' = everSent
            /\ ~is_broken' => (repair_timer = Some(0) /\ nodeOp' = "repair_sensor")]_vars
    /\ [][(~is_broken /\ is_broken') => repair_timer' = Some(repair_time)]_vars
    /\ (is_broken ~> (~is_broken \/ npc = "stopped"))

\* C28 witness: a node that was connected and had sent a reading is broken,
\* its timer half run down, and send_data has just returned False
C28_Witness ==
    /\ is_broken
    /\ everSent
    /\ repair_timer # None
    /\ repair_timer # Some(repair_time)
    /\ nodeOp = "send_data"
    /\ ~nodeResult

\* the other calls made while broken
C28_ConnectWhileBroken == is_broken /\ drone_up /\ nodeOp = "connect_to_drone"
C28_CollectWhileBroken == is_broken /\ nodeOp = "collect_environmental_data"
C28_ReconnectWhileBroken == is_broken /\ nodeOp = "handle_reconnection" /\ rpc = "done"
C28_Repaired == ~is_broken /\ failures > 0 /\ nodeOp = "repair_sensor" /\ running
C28_StoppedBroken == is_broken /\ npc = "stopped" /\ repair_timer = None

\* the other components, as far as the framing of one connection goes
notFraming == <<edgeSide, now, centralSide, cmVars, data_stream_active, offered,
                clientVars, nodeVars, lifeVars, clifeVars, lateVars>>

\* one connection after another, each stream cut into chunks in every way
FramingNext ==
    \/ FrConnect /\ UNCHANGED notFraming
    \/ (\E k \in 1..MaxChunk : FrRecv(k)) /\ UNCHANGED notFraming
    \/ FrRecvEof /\ UNCHANGED notFraming
    \/ FrNext /\ UNCHANGED notFraming

SpecFraming == Init /\ [][FramingNext]_vars

\* the bytes received so far
Received == SubSeq(fr_orig, 1, Len(fr_orig) - Len(fr_stream))

\* the payloads of the newline-terminated lines of a byte string that
\* decode as JSON objects, in order; a line that decodes as another JSON
\* value counts with the payload <<"5">>
RECURSIVE DecodableLines(_)
DecodableLines(bytes) ==
    LET i == FirstNewline(bytes, 1)
    IN  IF i = 0 THEN <<>>
        ELSE LET value == json_loads(Utf8Decode(SubSeq(bytes, 1, i - 1)))
                 rest == DecodableLines(SubSeq(bytes, i + 1, Len(bytes)))
             IN  IF value = "JSONDecodeError" THEN rest
                 ELSE IF value[1] = "object" THEN <<value[2]>> \o rest
                 ELSE <<<<"5">>>> \o rest

\* the bytes after the last newline of a byte string
RECURSIVE AfterLastNewline(_)
AfterLastNewline(bytes) ==
    LET i == FirstNewline(bytes, 1)
    IN  IF i = 0 THEN bytes ELSE AfterLastNewline(SubSeq(bytes, i + 1, Len(bytes)))

\* the framing contract of a handler
FramingHolds ==
    /\ dispatched = DecodableLines(Received)
    /\ fr_pc = "recv" => Utf8Encode(buffer) = AfterLastNewline(Received)
    /\ fr_pc \in {"eof", "raised"} => fr_stream = <<>>

\* C22: at every moment of a connection, for any stream and any cutting of
\* it into chunks, the payloads dispatched so far are exactly those of the
\* newline-terminated lines received so far that decode as JSON, once each
\* and in order; the buffer holds the text after the last newline; and the
\* handler leaves its loop only at the end of the stream.
C22_Framing == fr_pc # "idle" => FramingHolds

\* every line of the stream that decodes as JSON is an object, and the
\* stream is ASCII
ObjectsOnlyAscii ==
    /\ \A i \in 1..Len(fr_orig) : fr_orig[i] \notin {"c3", "a9"}
    /\ \A j \in 1..Len(DecodableLines(fr_orig)) : DecodableLines(fr_orig)[j] # <<"5">>

\* the contract on the streams a sensor or a drone of this repository sends
C22_FramingOfObjectStreams == (fr_pc # "idle" /\ ObjectsOnlyAscii) => FramingHolds

\* a stream with an undecodable line between two objects, cut inside the
\* second object, has been handled to its end
C22_SkippedLineSeen ==
    /\ fr_pc = "eof"
    /\ fr_orig = <<"{", "1", "}", NL, "{", "1", NL, "{", "2", "}", NL, "{", "2">>
    /\ dispatched = << <<"1">>, <<"2">> >>
    /\ buffer = <<"{", "2">>

\* the handler has left its loop on a number line with an object behind it
C22_NumberLineSeen ==
    /\ fr_pc = "raised"
    /\ fr_orig = <<"5", NL, "{", "1", "}", NL>>
    /\ fr_stream = <<>>
    /\ dispatched = <<>>

\* what a step of the edge server leaves alone, and a step of the central
\* server
notEdgeLife == <<now, centralSide, cmVars, data_stream_active, offered, clientVars,
                 nodeVars, framingVars, clifeVars, lateVars>>
notCentralLife == <<edgeSide, now, netVars, p2Vars, cmVars, data_stream_active,
                    offered, clientVars, nodeVars, framingVars, lateVars>>

\* the threads of the edge server
EdgeServerThread ==
    \/ (\E ok \in BOOLEAN : ServerBind(ok)) /\ UNCHANGED <<edgeSide, notEdgeLife>>
    \/ ServerLoopTest /\ UNCHANGED <<edgeSide, notEdgeLife>>
    \/ (\E addr \in LifeAddrs : ServerAccept(addr))
           /\ UNCHANGED <<edgeVars, battVars, notEdgeLife>>
    \/ ServerAcceptNone /\ UNCHANGED <<edgeSide, notEdgeLife>>

EdgeHandlerThread(addr) ==
    \/ HandlerRegister(addr) /\ UNCHANGED <<edgeVars, battVars, lifeVars, notEdgeLife>>
    \/ HandlerLoopTest(addr) /\ UNCHANGED <<edgeVars, battVars, lifeVars, notEdgeLife>>
    \/ (\E sensor_data \in SampleReadings(addr) : HandlerRecvData(addr, sensor_data))
           /\ UNCHANGED <<edgeVars, battVars, lifeVars, notEdgeLife>>
    \/ HandlerRecvFail(addr) /\ UNCHANGED <<edgeVars, battVars, lifeVars, notEdgeLife>>
    \/ HandlerCleanup(addr) /\ UNCHANGED <<edgeVars, battVars, lifeVars, notEdgeLife>>

EdgeProcessorThread ==
    \/ ProcessLoopTest /\ UNCHANGED <<lifeVars, notEdgeLife>>
    \/ ProcessGet /\ UNCHANGED <<lifeVars, notEdgeLife>>

EdgeBatteryThread ==
    \/ (server_running => loops < MaxLifeLoops)
           /\ BatteryLoopTest /\ UNCHANGED <<edgeVars, lifeVars, notEdgeLife>>
    \/ BatteryLoopStatus /\ UNCHANGED <<edgeVars, battVars, lifeVars, notEdgeLife>>
    \/ BatteryLoopEvict /\ UNCHANGED <<edgeVars, battVars, lifeVars, notEdgeLife>>

EdgeBackgroundThread(t) == BackgroundExit(t) /\ UNCHANGED <<edgeSide, notEdgeLife>>

\* stop() once it has been called
EdgeStopping ==
    \/ DroneStopConnections /\ UNCHANGED <<edgeVars, battVars, notEdgeLife>>
    \/ DroneStopServerSocket /\ UNCHANGED <<edgeSide, notEdgeLife>>

\* the threads of the central server
CentralServerThread ==
    \/ (\E ok \in BOOLEAN : CentralBind(ok))
           /\ UNCHANGED <<centralVars, lifeVars, notCentralLife>>
    \/ CentralBindFailed /\ UNCHANGED <<centralVars, lifeVars, notCentralLife>>
    \/ CentralLoopTest /\ UNCHANGED <<centralVars, lifeVars, notCentralLife>>
    \/ (\E addr \in CentralAddrs : CentralAcceptReturn(addr))
           /\ UNCHANGED <<lifeVars, notCentralLife>>
    \/ (\E addr \in CentralAddrs : CentralRegister(addr))
           /\ UNCHANGED <<lifeVars, notCentralLife>>
    \/ CentralAcceptNone /\ UNCHANGED <<centralVars, lifeVars, notCentralLife>>

CentralHandlerThread(addr) ==
    \/ CentralHandlerLoopTest(addr) /\ UNCHANGED <<clifeVars, lifeVars, notCentralLife>>
    \/ (\E timed_out \in BOOLEAN : CentralHandlerRecv(addr, timed_out))
           /\ UNCHANGED <<clifeVars, lifeVars, notCentralLife>>
    \/ CentralHandlerBreak(addr) /\ UNCHANGED <<clifeVars, lifeVars, notCentralLife>>
    \/ (\E close_ok \in BOOLEAN : CentralHandlerFinally(addr, close_ok))
           /\ UNCHANGED <<lifeVars, notCentralLife>>

CentralMonitorThread ==
    CentralMonitorStep /\ UNCHANGED <<centralVars, lifeVars, notCentralLife>>

\* start() after its first statement, the main loop, and stop() once called
CentralMainThread ==
    \/ CentralStartThreads /\ UNCHANGED <<centralVars, lifeVars, notCentralLife>>
    \/ CentralStartStatus /\ UNCHANGED <<centralVars, lifeVars, notCentralLife>>
    \/ GuiUpdateStatus /\ UNCHANGED <<centralVars, lifeVars, notCentralLife>>
    \/ CentralStopConnections /\ UNCHANGED <<lifeVars, notCentralLife>>
    \/ CentralStopWindow /\ UNCHANGED <<centralVars, lifeVars, notCentralLife>>

\* a process that runs the edge server or the central server, from start()
\* to the end of stop(), with close() always returning
LifeNext ==
    \/ DroneStart /\ UNCHANGED <<edgeSide, notEdgeLife>>
    \/ EdgeServerThread
    \/ \E addr \in SensorAddrs : EdgeHandlerThread(addr)
    \/ EdgeProcessorThread
    \/ EdgeBatteryThread
    \/ \E t \in BackgroundLoops : EdgeBackgroundThread(t)
    \/ DroneStopFlag /\ UNCHANGED <<edgeSide, notEdgeLife>>
    \/ EdgeStopping
    \/ CentralStartFlag
           /\ UNCHANGED <<centralVars, server_running, stop_pc, apc, server_socket,
                          bgpc, notCentralLife>>
    \/ CentralMainThread
    \/ CentralServerThread
    \/ \E addr \in CentralAddrs : CentralHandlerThread(addr)
    \/ CentralMonitorThread
    \/ CentralStopFlag /\ UNCHANGED <<centralVars, lifeVars, notCentralLife>>

\* a step of some started thread, or of stop() once it has been called
LifeProgress ==
    \/ EdgeServerThread
    \/ \E addr \in SensorAddrs : EdgeHandlerThread(addr)
    \/ EdgeProcessorThread
    \/ EdgeBatteryThread
    \/ \E t \in BackgroundLoops : EdgeBackgroundThread(t)
    \/ EdgeStopping
    \/ CentralMainThread
    \/ CentralServerThread
    \/ \E addr \in CentralAddrs : CentralHandlerThread(addr)
    \/ CentralMonitorThread

\* the scheduler does not stop the whole process: while some thread can
\* take a step, some thread does
LifeFairness == WF_vars(LifeProgress)

SpecLife == Init /\ [][LifeNext]_vars /\ LifeFairness

\* the same process with the battery loop running on until the drone
\* returns to base, and when close() may raise in the edge handler's finally
HandlerExitNext ==
    \/ LifeNext
    \/ BatteryLoopTest /\ UNCHANGED <<edgeVars, lifeVars, notEdgeLife>>
    \/ \E addr \in SensorAddrs :
           HandlerCleanupCloseRaises(addr)
           /\ UNCHANGED <<edgeVars, battVars, lifeVars, notEdgeLife>>

SpecHandlerExit == Init /\ [][HandlerExitNext]_vars

\* C21: a connection handler that has exited has left no entry under its
\* address in active_connections, at the edge and at the central server.
C21_ExitedHandlerUnregistered ==
    /\ \A addr \in SensorAddrs :
           hpc[addr] = "exited" => addr \notin DOMAIN active_connections
    /\ \A addr \in CentralAddrs :
           chpc[addr] = "exited" => ~HasAddr(c_active_connections, addr)

\* the edge handler has left through each of the other ways
C21_ExitedOnShutdown ==
    \E addr \in SensorAddrs :
        /\ hpc[addr] = "exited"
        /\ stop_pc = "done"
        /\ addr \notin evicted
C21_ExitedOnEviction ==
    \E addr \in SensorAddrs : hpc[addr] = "exited" /\ addr \in evicted
C21_ExitedWhileRunning ==
    \E addr \in SensorAddrs :
        hpc[addr] = "exited" /\ server_running /\ addr \notin evicted

\* C29: once bind() has failed the server thread never binds again and
\* ends; and when it has ended, start() is in the main loop and every
\* scheduled status update has been shown, server_running is False and the
\* status label reads "Error".
C29_BindFailureSurfaced ==
    /\ bind_failed => c_apc \in {"failed", "exited"}
    /\ (bind_failed /\ c_apc = "exited" /\ start_pc = "mainloop"
            /\ status_queue = <<>> /\ c_stop_pc = "idle") =>
           (~c_server_running /\ server_status = "Error")

\* the same without the status label
C29_StopsWithoutRetry ==
    /\ bind_failed => c_apc \in {"failed", "exited"}
    /\ (bind_failed /\ c_apc = "exited") => (~c_server_running /\ mpc # "unstarted")

\* the interleaving in which the label does end as "Error"
C29_ErrorShown ==
    /\ bind_failed
    /\ c_apc = "exited"
    /\ start_pc = "mainloop"
    /\ status_queue = <<>>
    /\ server_status = "Error"

\* every thread of the edge server has exited, every accepted socket is
\* closed and the map is empty
EdgeQuiet ==
    /\ \A addr \in SensorAddrs : hpc[addr] \in {"unconnected", "rejected", "exited"}
    /\ apc = "exited"
    /\ ppc = "exited"
    /\ bpc = "exited"
    /\ \A t \in BackgroundLoops : bgpc[t] = "exited"
    /\ \A addr \in SensorAddrs : hpc[addr] # "unconnected" => addr \in sock_closed
    /\ active_connections = EmptyDict

\* the same of the central server
CentralQuiet ==
    /\ \A addr \in CentralAddrs : chpc[addr] \in {"unconnected", "exited"}
    /\ c_apc = "exited"
    /\ mpc = "exited"
    /\ \A addr \in CentralAddrs : chpc[addr] # "unconnected" => addr \in c_sock_closed
    /\ c_active_connections = <<>>

C30_EdgeLateRegistration ==
    /\ stop_pc = "done"
    /\ \E addr \in SensorAddrs :
           /\ hpc[addr] = "loop"
           /\ addr \in DOMAIN active_connections
           /\ addr \notin sock_closed

\* both servers do come to rest after such a race
C30_EdgeAtRest == stop_pc = "done" /\ EdgeQuiet /\ hpc["a1"] = "exited"
C30_CentralAtRest == c_stop_pc = "done" /\ CentralQuiet /\ chpc["c1"] = "exited"

(***************************************************************************)
(* Central tier: what a report's own status decides                        *)
(***************************************************************************)
\* the status a report carries, in the spelling the central tier stores
CarriedStatus(report) ==
    IF report.status = "returning_to_base" THEN "Returning To Base"
    ELSE IF report.status = "charging" THEN "Charging"
    ELSE report.status

\* a handler has just processed the line it held
Dispatched(addr) == chpc[addr] = "dispatch" /\ chpc'[addr] = "recv"

\* the list of a report was given to add_anomalies in this step
HandedOver(report) ==
    /\ report.drone_id \in DOMAIN handed'
    /\ Len(handed'[report.drone_id]) = Len(DictGet(handed, report.drone_id, <<>>)) + 1
    /\ handed'[report.drone_id][Len(handed'[report.drone_id])] = report.anomalies

\* C38: at the central tier the anomalies of a report whose status is
\* "normal" are passed to add_anomalies whatever its battery_level, the
\* status recorded for the drone is the one its latest report carries, and
\* anomalies are withheld only for reports whose own status is
\* returning_to_base or charging.
C38_ReportStatusDecides ==
    [][\A addr \in DOMAIN DroneAt :
          Dispatched(addr) =>
              LET report == ch_line[addr][1]
              IN  /\ drone_statuses'[report.drone_id] = CarriedStatus(report)
                  /\ (report.status = "normal" /\ report.anomalies # <<>>)
                         => HandedOver(report)
                  /\ (report.anomalies # <<>> /\ ~HandedOver(report))
                         => report.status \in {"returning_to_base", "charging"}]_vars

\* the same with the battery_level of the report at or above the central
\* tier's own limit of 20
C38_ReportStatusDecidesAboveLimit ==
    [][\A addr \in DOMAIN DroneAt :
          (Dispatched(addr) /\ ch_line[addr][1].battery_level >= LowBattery) =>
              LET report == ch_line[addr][1]
              IN  /\ drone_statuses'[report.drone_id] = CarriedStatus(report)
                  /\ (report.status = "normal" /\ report.anomalies # <<>>)
                         => HandedOver(report)
                  /\ (report.anomalies # <<>> /\ ~HandedOver(report))
                         => report.status \in {"returning_to_base", "charging"}]_vars

\* a normal report with a level under 20 was recorded as Returning To Base
C38_LowNormalReportSeen ==
    \E addr \in DOMAIN DroneAt :
        /\ chpc[addr] = "dispatch"
        /\ ch_line[addr][1].status = "normal"
        /\ ch_line[addr][1].battery_level < LowBattery
        /\ ch_line[addr][1].anomalies # <<>>

(***************************************************************************)
(* Central tier: whom the liveness sweep reports as lost                   *)
(***************************************************************************)
\* the drone ids the registered connections have announced in a message
AnnouncedIds ==
    {c_active_connections[i].drone_id : i \in 1..Len(c_active_connections)} \ {NoDrone}

\* the drones a step marks Disconnected
NewlyDisconnected ==
    {d \in DOMAIN drone_statuses' :
        /\ drone_statuses'[d] = "Disconnected"
        /\ DictGet(drone_statuses, d, "") # "Disconnected"}

\* the drones of the connection_lost entries a step appends
NewlyLost ==
    {c_anomalies'[i].drone_id :
        i \in {j \in Len(c_anomalies) + 1 .. Len(c_anomalies') :
                  c_anomalies'[j].issue = "connection_lost"}}

\* one pass of the monitor
SweepStep == nextSweep' # nextSweep

\* C39: the liveness sweep creates connection_lost anomalies and
\* Disconnected status entries only for drone ids that some connection
\* announced; evicting a connection that never delivered a drone_id creates
\* no anomaly and no status entry.
C39_SweepNamesAnnouncedIdsOnly ==
    [][SweepStep => /\ NewlyDisconnected \subseteq AnnouncedIds
                    /\ NewlyLost \subseteq AnnouncedIds
                    /\ DOMAIN drone_statuses' \subseteq
                           DOMAIN drone_statuses \cup AnnouncedIds]_vars

\* the same with the id None of an unidentified record counted as an id
C39_SweepNamesRecordIdsOnly ==
    [][SweepStep => /\ NewlyDisconnected \subseteq AnnouncedIds \cup {NoDrone}
                    /\ NewlyLost \subseteq AnnouncedIds \cup {NoDrone}
                    /\ DOMAIN drone_statuses' \subseteq
                           DOMAIN drone_statuses \cup AnnouncedIds \cup {NoDrone}]_vars

\* a silent connection without drone id was evicted by the sweep
C39_UnidentifiedEvicted ==
    \E a \in CentralAddrs :
        /\ ch_drone_id[a] = NoDrone
        /\ chpc[a] = "recv"
        /\ a \in c_sock_closed
        /\ ~HasAddr(c_active_connections, a)

(***************************************************************************)
(* Central tier: a drone lost, back, and lost again                        *)
(***************************************************************************)
MaxLossTime == 120

\* the drone that connects, falls silent and connects again
LossDrone == "d1"

\* time passes by the length of the monitor's sleep
LossTick ==
    /\ now + cleanup_interval <= MaxLossTime
    /\ now < nextSweep
    /\ now' = now + cleanup_interval

\* the central server with one drone that connects under two addresses,
\* at the same time or one after the other
LossNext ==
    \/ \E addr \in CentralAddrs :
           CentralAccept(addr) /\ UNCHANGED <<restVars, edgeSide, now, netVars, p2Vars>>
    \/ \E addr \in CentralAddrs :
           CentralRecv(addr, QuietReport(LossDrone))
           /\ UNCHANGED <<restVars, edgeSide, now, netVars, p2Vars>>
    \/ \E addr \in CentralAddrs :
           CentralDispatch(addr) /\ UNCHANGED <<restVars, edgeSide, now, netVars, p2Vars>>
    \/ \E addr \in CentralAddrs :
           CentralHandlerExit(addr) /\ UNCHANGED <<restVars, edgeSide, now, netVars, p2Vars>>
    \/ MonitorSweep /\ UNCHANGED <<restVars, edgeSide, now, netVars, p2Vars>>
    \/ LossTick /\ UNCHANGED <<restVars, edgeSide, centralSide>>

SpecLoss == Init /\ [][LossNext]_vars

\* the identified drones whose last record a step evicts
LostInStep ==
    {d \in DroneIds :
        /\ \E i \in 1..Len(c_active_connections) :
               /\ c_active_connections[i].drone_id = d
               /\ ~HasAddr(c_active_connections', c_active_connections[i].addr)
        /\ ~StillConnected(c_active_connections', d)}

\* the drones of the connection_lost entries a step forwards
NewlyForwarded ==
    {forwarded'[i].drone_id :
        i \in {j \in Len(forwarded) + 1 .. Len(forwarded') :
                  forwarded'[j].issue = "connection_lost"}}

\* C37: every timeout eviction that leaves no live record for an identified
\* drone adds a connection_lost anomaly to the anomaly history and forwards
\* it, also the second and later times the drone is lost after having
\* reconnected in between.
C37_EveryLossReported ==
    [][SweepStep => \A d \in LostInStep : d \in NewlyLost /\ d \in NewlyForwarded]_vars

\* the same for the first loss of each drone
C37_FirstLossReported ==
    [][SweepStep =>
          \A d \in LostInStep :
              d \notin DOMAIN last_anomaly_report
                  => d \in NewlyLost /\ d \in NewlyForwarded]_vars

\* the drone is lost a second time
C37_LostAgain ==
    /\ now = MaxLossTime
    /\ \A a \in CentralAddrs : ch_drone_id[a] = LossDrone /\ a \in c_sock_closed
    /\ c_active_connections = <<>>
    /\ drone_statuses[LossDrone] = "Disconnected"

(***************************************************************************)
(* Read timeouts of the connection handlers                                *)
(***************************************************************************)
\* no handler other than that of addr and no server thread moves in a step
OnlyEdgeHandlerMoves(addr) ==
    /\ \A b \in SensorAddrs \ {addr} : hpc'[b] = hpc[b]
    /\ apc' = apc
    /\ server_running' = server_running

OnlyCentralHandlerMoves(addr) ==
    /\ \A b \in CentralAddrs \ {addr} : chpc'[b] = chpc[b]
    /\ c_apc' = c_apc
    /\ c_server_running' = c_server_running

\* the edge handler on a read timeout, and its finally block
EdgeReadTimeoutCloses ==
    /\ \A addr \in SensorAddrs :
           HandlerRecvFail(addr) => hpc'[addr] = "cleanup" /\ OnlyEdgeHandlerMoves(addr)
    /\ \A addr \in SensorAddrs :
           (hpc[addr] = "cleanup" /\ hpc'[addr] = "exited") =>
               /\ addr \in sock_closed'
               /\ addr \notin DOMAIN active_connections'
               /\ OnlyEdgeHandlerMoves(addr)

\* the central handler on a read timeout, and its finally block
CentralReadTimeoutCloses ==
    /\ \A addr \in CentralAddrs :
           CentralHandlerRecv(addr, TRUE) =>
               chpc'[addr] = "finally" /\ OnlyCentralHandlerMoves(addr)
    /\ \A addr \in CentralAddrs :
           (chpc[addr] = "finally" /\ chpc'[addr] = "exited") =>
               /\ addr \in c_sock_closed'
               /\ ~HasAddr(c_active_connections', addr)
               /\ OnlyCentralHandlerMoves(addr)

\* C32: a connection whose read times out is closed and its record removed
\* from active_connections by its handler, at the edge and at the central
\* tier, and no other handler nor the server ends with it.
C32_ReadTimeoutClosesConnection ==
    [][EdgeReadTimeoutCloses /\ CentralReadTimeoutCloses]_vars

\* the edge tier alone
C32_EdgeReadTimeoutClosesConnection == [][EdgeReadTimeoutCloses]_vars

\* the central handler after a read timeout: back to the loop test, the
\* record and the socket as they were
C32_CentralReadTimeoutContinues ==
    [][\A addr \in CentralAddrs :
          CentralHandlerRecv(addr, TRUE) =>
              /\ chpc'[addr] = "top"
              /\ c_active_connections' = c_active_connections
              /\ c_sock_closed' = c_sock_closed]_vars

\* an edge handler has left after its read failed while another handler and
\* the server go on
C32_EdgeTimedOutHandlerGone ==
    \E addr \in SensorAddrs :
        /\ hpc[addr] = "exited"
        /\ addr \in sock_closed
        /\ addr \notin evicted
        /\ server_running
        /\ apc \in {"top", "accept"}

\* a central handler is back at its loop test with its record registered
C32_CentralHandlerStillRegistered ==
    \E addr \in CentralAddrs :
        /\ chpc[addr] = "top"
        /\ HasAddr(c_active_connections, addr)
        /\ addr \notin c_sock_closed
        /\ c_server_running

(***************************************************************************)
(* Edge: the registry while the drone is away                              *)
(***************************************************************************)
\* the battery is Returning or Charging and the battery loop has ended the
\* iteration that saw the change, eviction included
AwayAndEvicted ==
    /\ Mode \in {"Returning", "Charging"}
    /\ last_state.returning_to_base

\* C35: at the edge, in every state where the battery mode is Returning or
\* Charging and the battery loop has finished the eviction step for that
\* transition, active_connections is empty, for every interleaving of the
\* accept loop, the handlers and the battery loop.
C35_EmptyWhileAway == AwayAndEvicted => active_connections = EmptyDict

\* what the registry can hold then: connections accepted in Normal mode
\* whose handlers registered them after the eviction and have not yet
\* run their finally block
C35_OnlyLateRegistrations ==
    AwayAndEvicted =>
        \A a \in DOMAIN active_connections :
            /\ acceptMode[a] = "Normal"
            /\ hpc[a] \in {"loop", "cleanup"}
            /\ a \notin evicted

\* a handler registered its connection after the eviction
C35_LateRegistrationSeen ==
    /\ AwayAndEvicted
    /\ \E a \in DOMAIN active_connections : hpc[a] = "loop" /\ a \notin sock_closed

(***************************************************************************)
(* Edge: the battery cycle under a fair scheduler                          *)
(***************************************************************************)
\* the variables of the components before the last
beforeLate == <<cmVars, data_stream_active, offered, clientVars, nodeVars,
                framingVars, lifeVars, clifeVars, countVars, syncVars>>

\* the battery loop, one step of an iteration
FairBatteryLoop ==
    \/ FairLoopDrain /\ UNCHANGED <<beforeLate, edgeVars, now, centralSide>>
    \/ BatteryLoopStatus /\ UNCHANGED <<restVars, edgeVars, battVars, now, centralSide>>
    \/ FairLoopEvict /\ UNCHANGED <<beforeLate, edgeVars, battVars, now, centralSide>>

FairClock == FairTick /\ UNCHANGED <<beforeLate, edgeVars, battVars, droneVars, centralSide>>

\* the battery loop, the accept loop and the threshold setting of the GUI
\* as time passes
FairBatteryNext ==
    \/ FairBatteryLoop
    \/ FairClock
    \/ \E addr \in SensorAddrs :
           Accept(addr) /\ UNCHANGED <<restVars, edgeVars, battVars, now, centralSide>>
    \/ (\E n \in {ThresholdMin, initial_threshold, ThresholdMax} : set_threshold(n))
           /\ UNCHANGED <<restVars, edgeVars, now, droneVars, centralSide>>

\* the battery thread is scheduled again and again, and time advances
SpecBatteryFair ==
    /\ Init
    /\ [][FairBatteryNext]_vars
    /\ WF_vars(FairBatteryLoop)
    /\ WF_vars(FairClock)

\* C36: under fair scheduling of the battery loop and advancing time, every
\* time the edge enters Returning it eventually reaches Charging and then
\* Normal again, after which the accept loop hands newly accepted
\* connections to handlers; the battery never stays in Returning or
\* Charging forever, for any threshold accepted by set_threshold.
C36_BatteryCycleCompletes ==
    /\ [](Mode = "Returning" => <>(Mode = "Charging"))
    /\ [](Mode = "Charging" => <>(Mode = "Normal"))
    /\ [](Mode # "Normal" => <>[](Mode = "Normal"))
    /\ [][Mode = "Returning" => Mode' \in {"Returning", "Charging"}]_vars
    /\ [][\A a \in SensorAddrs :
             (hpc[a] = "unconnected" /\ hpc'[a] # "unconnected") =>
                 hpc'[a] = IF Mode = "Normal" THEN "spawned" ELSE "rejected"]_vars

\* the clock of the behaviours checked never stops while the drone is away
C36_ClockRunsWhileAway ==
    Mode # "Normal" => now + TickSeconds <= MaxAwayTime

\* C36 witness: one connection was refused while the drone was away, the
\* cycle has been completed under a threshold set by the operator, and
\* the next connection was handed to a handler
C36_Witness ==
    /\ Mode = "Normal"
    /\ level = ChargeTarget
    /\ threshold = ThresholdMax
    /\ loops > MaxBatteryLoops
    /\ \E a, b \in SensorAddrs :
           /\ acceptMode[a] \in {"Returning", "Charging"} /\ hpc[a] = "rejected"
           /\ acceptMode[b] = "Normal" /\ hpc[b] = "spawned"

(***************************************************************************)
(* Central: the displayed connection count against the registry            *)
(***************************************************************************)
\* the variables of the components below other than the count
notCount == <<cmVars, data_stream_active, offered, clientVars, nodeVars,
              framingVars, lifeVars, clifeVars, loop_ran, syncVars>>

\* a step changes the size of the registry while some thread holds a count
RegistryChangedUnderReader ==
    /\ Len(c_active_connections') # Len(c_active_connections)
    /\ \E th \in CountThreads : cnt_pc[th] = "call"

\* _start_server: accept() returned addr; the record is stored under the lock
CountAccept(addr) ==
    /\ cnt_pc["accept"] = "idle"
    /\ chpc[addr] = "unconnected"
    /\ c_active_connections' =
           Append(DelAddr(c_active_connections, addr),
                  [addr |-> addr, connection |-> addr, last_active |-> now,
                   drone_id |-> NoDrone])
    /\ accepted' = addr
    /\ cnt_pc' = [cnt_pc EXCEPT !["accept"] = "read"]
    /\ stale' = (stale \/ RegistryChangedUnderReader)
    /\ UNCHANGED <<c_sock_closed, chpc, ch_drone_id, ch_line, drone_statuses, c_anomalies,
                   last_anomaly_report, forwarded, nextSweep, handed,
                   active_count, update_queue, connection_count>>

\* len(self.active_connections), evaluated after the lock was released (or,
\* in start(), without it)
CountRead(th) ==
    /\ cnt_pc[th] = "read"
    /\ active_count' = [active_count EXCEPT ![th] = Len(c_active_connections)]
    /\ cnt_pc' = [cnt_pc EXCEPT ![th] = "call"]
    /\ UNCHANGED <<centralVars, accepted, update_queue, connection_count, stale>>

\* update_server_status: root.after(0, _update_status_display, status, count)
Scheduled(queue, count) == Append(queue, count)

\* start(): update_server_status("Running", len(...)), then the main loop
CountMainCall ==
    /\ cnt_pc["main"] = "call"
    /\ update_queue' = Scheduled(update_queue, active_count["main"])
    /\ cnt_pc' = [cnt_pc EXCEPT !["main"] = "idle"]
    /\ active_count' = [active_count EXCEPT !["main"] = 0]
    /\ UNCHANGED <<centralVars, accepted, connection_count, stale>>

\* _start_server: update_server_status, then the handler thread is started
CountAcceptCall ==
    /\ cnt_pc["accept"] = "call"
    /\ update_queue' = Scheduled(update_queue, active_count["accept"])
    /\ cnt_pc' = [cnt_pc EXCEPT !["accept"] = "idle"]
    /\ active_count' = [active_count EXCEPT !["accept"] = 0]
    /\ chpc' = [chpc EXCEPT ![accepted] = "recv"]
    /\ accepted' = NoAddr
    /\ UNCHANGED <<c_active_connections, c_sock_closed, ch_drone_id, ch_line,
                   drone_statuses, c_anomalies, last_anomaly_report, forwarded,
                   nextSweep, handed, connection_count, stale>>

\* _handle_client: the loop is left; the finally block deletes the record
\* under the lock
CountHandlerRemove(addr) ==
    /\ chpc[addr] = "recv"
    /\ cnt_pc[addr] = "idle"
    /\ c_active_connections' = DelAddr(c_active_connections, addr)
    /\ chpc' = [chpc EXCEPT ![addr] = "finally"]
    /\ cnt_pc' = [cnt_pc EXCEPT ![addr] = "read"]
    /\ stale' = (stale \/ RegistryChangedUnderReader)
    /\ UNCHANGED <<c_sock_closed, ch_drone_id, ch_line, drone_statuses, c_anomalies,
                   last_anomaly_report, forwarded, nextSweep, handed,
                   active_count, accepted, update_queue, connection_count>>

\* _handle_client: update_server_status, then the rest of the finally block:
\* the scan for the drone id, the Disconnected mark and close()
CountHandlerCall(addr) ==
    /\ cnt_pc[addr] = "call"
    /\ update_queue' = Scheduled(update_queue, active_count[addr])
    /\ cnt_pc' = [cnt_pc EXCEPT ![addr] = "idle"]
    /\ active_count' = [active_count EXCEPT ![addr] = 0]
    /\ LET drone_id == ch_drone_id[addr]
       IN  drone_statuses' =
               IF /\ drone_id # NoDrone
                  /\ ~StillConnected(c_active_connections, drone_id)
                  /\ DictGet(drone_statuses, drone_id, "") # "Disconnected"
               THEN DictPut(drone_statuses, drone_id, "Disconnected")
               ELSE drone_statuses
    /\ c_sock_closed' = c_sock_closed \cup {addr}
    /\ chpc' = [chpc EXCEPT ![addr] = "exited"]
    /\ UNCHANGED <<c_active_connections, ch_drone_id, ch_line, c_anomalies,
                   last_anomaly_report, forwarded, nextSweep, handed,
                   accepted, connection_count, stale>>

\* _monitor_connections: one pass under the lock
CountSweep ==
    /\ cnt_pc["monitor"] = "idle"
    /\ MonitorSweep
    /\ cnt_pc' = [cnt_pc EXCEPT !["monitor"] = "read"]
    /\ stale' = (stale \/ RegistryChangedUnderReader)
    /\ UNCHANGED <<active_count, accepted, update_queue, connection_count>>

\* _monitor_connections: update_server_status after the pass
CountMonitorCall ==
    /\ cnt_pc["monitor"] = "call"
    /\ update_queue' = Scheduled(update_queue, active_count["monitor"])
    /\ cnt_pc' = [cnt_pc EXCEPT !["monitor"] = "idle"]
    /\ active_count' = [active_count EXCEPT !["monitor"] = 0]
    /\ UNCHANGED <<centralVars, accepted, connection_count, stale>>

\* _update_status_display, run by the GUI thread for the oldest scheduled call
UpdateStatusDisplay ==
    /\ update_queue # <<>>
    /\ connection_count' = Head(update_queue)
    /\ update_queue' = Tail(update_queue)
    /\ UNCHANGED <<centralVars, cnt_pc, active_count, accepted, stale>>

\* seconds of a behaviour: long enough for the monitor to evict a connection
MaxCountTime == 60

\* time passes from one wake-up of the monitor to the next
CountTick ==
    /\ now + cleanup_interval <= MaxCountTime
    /\ now < nextSweep
    /\ now' = now + cleanup_interval

CountNext ==
    \/ \E addr \in CentralAddrs :
           CountAccept(addr) /\ UNCHANGED <<notCount, edgeSide, now, netVars, p2Vars>>
    \/ \E th \in CountThreads :
           CountRead(th) /\ UNCHANGED <<notCount, edgeSide, now, netVars, p2Vars>>
    \/ CountMainCall /\ UNCHANGED <<notCount, edgeSide, now, netVars, p2Vars>>
    \/ CountAcceptCall /\ UNCHANGED <<notCount, edgeSide, now, netVars, p2Vars>>
    \/ \E addr \in CentralAddrs :
           CountHandlerRemove(addr) /\ UNCHANGED <<notCount, edgeSide, now, netVars, p2Vars>>
    \/ \E addr \in CentralAddrs :
           CountHandlerCall(addr) /\ UNCHANGED <<notCount, edgeSide, now, netVars, p2Vars>>
    \/ CountSweep /\ UNCHANGED <<notCount, edgeSide, now, netVars, p2Vars>>
    \/ CountMonitorCall /\ UNCHANGED <<notCount, edgeSide, now, netVars, p2Vars>>
    \/ UpdateStatusDisplay /\ UNCHANGED <<notCount, edgeSide, now, netVars, p2Vars>>
    \/ CountTick /\ UNCHANGED <<restVars, edgeSide, centralSide>>

SpecCount == Init /\ [][CountNext]_vars

\* no accept, handler exit, sweep or start is in progress and every scheduled
\* update has been displayed
CountQuiet ==
    /\ \A th \in CountThreads : cnt_pc[th] = "idle"
    /\ update_queue = <<>>

\* C31: whenever no accept, handler exit or sweep is in progress, the
\* connection count last delivered through update_server_status equals the
\* number of records in active_connections
C31_CountMatchesRegistry ==
    CountQuiet => connection_count = Len(c_active_connections)

\* the count is right at rest whenever no thread held a count across a change
\* of the registry
C31_CountMatchesUnlessStale ==
    (CountQuiet /\ ~stale) => connection_count = Len(c_active_connections)

\* both connections were accepted and have gone, one after the other, and the
\* count at rest is right
C31_QuietAfterExits ==
    /\ CountQuiet /\ ~stale
    /\ \A a \in CentralAddrs : chpc[a] = "exited"
    /\ connection_count = 0

(***************************************************************************)
(* Locking: the statements of each operation that take or release a lock   *)
(* or touch a connection registry, in program order.                       *)
(***************************************************************************)
\* the registries: CentralServer.active_connections, DroneServer.active_connections
\* and ConnectionManager.node_to_addr
Registries == {"c_active_connections", "active_connections", "node_to_addr"}

\* the connection_lock of the server that owns the registry
GuardOf(registry) ==
    IF registry = "c_active_connections" THEN "c_connection_lock" ELSE "connection_lock"

\* `with lock:` is entered
Acq(l) == [kind |-> "acq", lock |-> l, reads |-> {}, writes |-> {}]

\* the `with lock:` block is left
Rel(l) == [kind |-> "rel", lock |-> l, reads |-> {}, writes |-> {}]

\* statements reading and writing the given registries
Acc(r, w) == [kind |-> "access", lock |-> "none", reads |-> r, writes |-> w]

\* a thread that runs no operation
NoStatement == Acc({}, {})

\* CentralServer.start: len(self.active_connections) for the first status
CentralStartLocks == <<Acc({"c_active_connections"}, {})>>

\* CentralServer.stop: every record closed and deleted under the lock
CentralStopLocks ==
    <<Acq("c_connection_lock"),
      Acc({"c_active_connections"}, {"c_active_connections"}),
      Rel("c_connection_lock")>>

\* CentralServer._start_server: the record stored under the lock, then
\* len(self.active_connections) for the status
CentralAcceptLocks ==
    <<Acq("c_connection_lock"),
      Acc({}, {"c_active_connections"}),
      Rel("c_connection_lock"),
      Acc({"c_active_connections"}, {})>>

\* CentralServer._handle_client: last_active refreshed after recv
CentralRecvLocks ==
    <<Acq("c_connection_lock"),
      Acc({"c_active_connections"}, {"c_active_connections"}),
      Rel("c_connection_lock")>>

\* CentralServer._handle_client: drone_id stored on identification
CentralIdentifyLocks ==
    <<Acq("c_connection_lock"),
      Acc({"c_active_connections"}, {"c_active_connections"}),
      Rel("c_connection_lock")>>

\* ServerGUI.add_data_entry: the append to drone_data, then add_data_to_charts
AddDataEntryLocks ==
    <<Acq("update_lock"), Rel("update_lock"), Acq("update_lock"), Rel("update_lock")>>

\* add_anomalies taking connection_lock inside update_lock
AddAnomaliesLocksWithRegistry ==
    <<Acq("update_lock"), Acq("c_connection_lock"),
      Acc({"c_active_connections"}, {}),
      Rel("c_connection_lock"), Rel("update_lock")>>

\* ServerGUI.add_anomalies: the loop over the anomalies under update_lock
AddAnomaliesLocks == <<Acq("update_lock"), Rel("update_lock")>>

\* CentralServer._process_drone_data: add_data_entry, then add_anomalies
ProcessDroneDataLocks == AddDataEntryLocks \o AddAnomaliesLocks

\* the finally block deleting the record without the lock
CentralExitLocksUnlocked ==
    <<Acc({"c_active_connections"}, {"c_active_connections"}),
      Acc({"c_active_connections"}, {}),
      Acc({"c_active_connections"}, {})>>

\* CentralServer._handle_client, finally: the record deleted under the lock,
\* then len() and the scan for the drone id
CentralExitLocks ==
    <<Acq("c_connection_lock"),
      Acc({"c_active_connections"}, {"c_active_connections"}),
      Rel("c_connection_lock"),
      Acc({"c_active_connections"}, {}),
      Acc({"c_active_connections"}, {})>>

\* CentralServer._monitor_connections: one pass under the lock, with
\* add_anomalies called inside it when a drone was lost, then len()
CentralSweepLocks(lost) ==
    <<Acq("c_connection_lock"),
      Acc({"c_active_connections"}, {"c_active_connections"})>>
    \o (IF lost THEN AddAnomaliesLocks ELSE <<>>)
    \o <<Rel("c_connection_lock"),
         Acc({"c_active_connections"}, {})>>

\* BatteryManager.consume, charge, check_status and set_threshold
BatteryLocks == <<Acq("battery_lock"), Rel("battery_lock")>>

\* EdgeProcessor.update_readings, compute_averages, get_anomalies, get_readings
EdgeProcessorLocks == <<Acq("edge_lock"), Rel("edge_lock")>>

\* DroneClient.send_to_server
UplinkLocks == <<Acq("uplink_lock"), Rel("uplink_lock")>>

\* DroneServer._handle_client: the socket stored at the start of the handler
EdgeRegisterLocks ==
    <<Acq("connection_lock"), Acc({}, {"active_connections"}), Rel("connection_lock")>>

\* ConnectionManager.register_node
RegisterNodeLocks ==
    <<Acq("connection_lock"), Acc({}, {"node_to_addr"}), Rel("connection_lock")>>

\* DroneServer._handle_client, finally
EdgeExitLocks ==
    <<Acq("connection_lock"),
      Acc({"active_connections"}, {"active_connections"}),
      Rel("connection_lock")>>

\* DroneServer._process_data: check_status, update_readings, get_anomalies
ProcessDataLocks == BatteryLocks \o EdgeProcessorLocks \o EdgeProcessorLocks

\* DroneServer._manage_battery: charge or consume, check_status, and the
\* eviction under connection_lock on the change to returning
ManageBatteryLocks(evicts) ==
    BatteryLocks \o BatteryLocks
    \o (IF evicts
        THEN <<Acq("connection_lock"),
               Acc({"active_connections"}, {"active_connections"}),
               Rel("connection_lock")>>
        ELSE <<>>)

\* DroneServer._communicate_with_server: check_status, compute_averages,
\* get_anomalies, send_to_server
CommunicateLocks ==
    BatteryLocks \o EdgeProcessorLocks \o EdgeProcessorLocks \o UplinkLocks

\* ConnectionManager.disconnect_node
DisconnectNodeLocks ==
    <<Acq("connection_lock"),
      Acc({"node_to_addr", "active_connections"}, {"active_connections"}),
      Rel("connection_lock")>>

\* DroneGUI.update_nodes: the membership tests for the node status
UpdateNodesLocks == <<Acc({"node_to_addr", "active_connections"}, {})>>

\* DroneServer.stop
EdgeStopLocks ==
    <<Acq("connection_lock"),
      Acc({"active_connections"}, {"active_connections"}),
      Rel("connection_lock")>>

\* the operations, by name
SyncProgram(op) ==
    CASE op = "start" -> CentralStartLocks
      [] op = "stop" -> CentralStopLocks
      [] op = "accept" -> CentralAcceptLocks
      [] op = "recv" -> CentralRecvLocks
      [] op = "identify" -> CentralIdentifyLocks
      [] op = "process" -> ProcessDroneDataLocks
      [] op = "exit" -> CentralExitLocks
      [] op = "sweep" -> CentralSweepLocks(FALSE)
      [] op = "sweep_lost" -> CentralSweepLocks(TRUE)
      [] op = "battery_call" -> BatteryLocks
      [] op = "processor_call" -> EdgeProcessorLocks
      [] op = "edge_register" -> EdgeRegisterLocks
      [] op = "register_node" -> RegisterNodeLocks
      [] op = "edge_exit" -> EdgeExitLocks
      [] op = "process_data" -> ProcessDataLocks
      [] op = "manage_battery" -> ManageBatteryLocks(FALSE)
      [] op = "manage_battery_evict" -> ManageBatteryLocks(TRUE)
      [] op = "communicate" -> CommunicateLocks
      [] op = "disconnect_node" -> DisconnectNodeLocks
      [] op = "update_nodes" -> UpdateNodesLocks
      [] op = "edge_stop" -> EdgeStopLocks

\* the operations each thread runs
SyncOps(t) ==
    CASE t = "c_main" -> {"start", "stop"}
      [] t = "c_accept" -> {"accept"}
      [] t \in {"c_h1", "c_h2"} -> {"recv", "identify", "process", "exit"}
      [] t = "c_monitor" -> {"sweep", "sweep_lost"}
      [] t = "e_main" -> {"disconnect_node", "update_nodes", "battery_call",
                          "processor_call", "edge_stop"}
      [] t = "e_accept" -> {"battery_call"}
      [] t = "e_h1" -> {"edge_register", "battery_call", "register_node", "edge_exit"}
      [] t = "e_consumer" -> {"process_data"}
      [] t = "e_battery" -> {"manage_battery", "manage_battery_evict"}
      [] t = "e_uplink" -> {"communicate"}

TierOf(t) == IF t \in CentralThreads THEN "central" ELSE "edge"

\* the statement a thread is about to run
Current(t) ==
    IF sync_op[t] = "idle" THEN NoStatement ELSE SyncProgram(sync_op[t])[sync_pc[t]]

\* a thread enters an operation; the first thread to move fixes the process
\* observed
SyncBegin(t, op) ==
    /\ sync_op[t] = "idle"
    /\ op \in SyncOps(t)
    /\ sync_tier \in {"none", TierOf(t)}
    /\ sync_tier' = TierOf(t)
    /\ sync_op' = [sync_op EXCEPT ![t] = op]
    /\ sync_pc' = [sync_pc EXCEPT ![t] = 1]
    /\ UNCHANGED lock_owner

\* a thread runs its next statement; `with lock:` waits until the lock is free
SyncStep(t) ==
    /\ sync_op[t] # "idle"
    /\ LET ins == Current(t)
       IN  /\ ins.kind = "acq" => lock_owner[ins.lock] = "free"
           /\ lock_owner' =
                  IF ins.kind = "acq" THEN [lock_owner EXCEPT ![ins.lock] = t]
                  ELSE IF ins.kind = "rel" THEN [lock_owner EXCEPT ![ins.lock] = "free"]
                  ELSE lock_owner
    /\ IF sync_pc[t] = Len(SyncProgram(sync_op[t]))
       THEN /\ sync_op' = [sync_op EXCEPT ![t] = "idle"]
            /\ sync_pc' = [sync_pc EXCEPT ![t] = 0]
       ELSE /\ sync_pc' = [sync_pc EXCEPT ![t] = @ + 1]
            /\ UNCHANGED sync_op
    /\ UNCHANGED sync_tier

\* the variables of the components below other than the locks
notSync == <<cmVars, data_stream_active, offered, clientVars, nodeVars,
             framingVars, lifeVars, clifeVars, loop_ran, countVars>>

SyncBeginStep ==
    \E t \in SyncThreads : \E op \in SyncOps(t) :
        SyncBegin(t, op)
        /\ UNCHANGED <<notSync, edgeVars, battVars, now, droneVars, centralSide>>

SyncRun(t) ==
    SyncStep(t) /\ UNCHANGED <<notSync, edgeVars, battVars, now, droneVars, centralSide>>

SyncNext ==
    \/ SyncBeginStep
    \/ \E t \in SyncThreads : SyncRun(t)

SpecSync == Init /\ [][SyncNext]_vars

\* C33: a thread about to insert into, update or delete from active_connections
\* or node_to_addr, at either tier, holds that registry's connection_lock
C33_WritesHoldLock ==
    \A t \in SyncThreads : \A registry \in Current(t).writes :
        lock_owner[GuardOf(registry)] = t

\* a thread is about to write a registry while another waits at the same
\* lock; seen at the edge for node_to_addr and at the central server
C33_Witness ==
    \E t, u \in SyncThreads :
        /\ t # u
        /\ "node_to_addr" \in Current(t).writes
        /\ lock_owner["connection_lock"] = t
        /\ Current(u).kind = "acq" /\ Current(u).lock = "connection_lock"

C33_CentralWriteContended ==
    \E t, u \in SyncThreads :
        /\ t # u
        /\ "c_active_connections" \in Current(t).writes
        /\ lock_owner["c_connection_lock"] = t
        /\ Current(u).kind = "acq" /\ Current(u).lock = "c_connection_lock"

\* C34: a thread about to read active_connections or node_to_addr holds that
\* registry's connection_lock
C34_ReadsHoldLock ==
    \A t \in SyncThreads : \A registry \in Current(t).reads :
        lock_owner[GuardOf(registry)] = t

\* the operations that read a registry outside the lock
UnlockedReaders == {"start", "accept", "exit", "sweep", "sweep_lost", "update_nodes"}

\* reads without the lock are made only by the status count, the scan at
\* handler exit and the node-status refresh, and by nothing that also writes
C34_UnlockedReadsOnlyForDisplay ==
    \A t \in SyncThreads : \A registry \in Current(t).reads :
        lock_owner[GuardOf(registry)] # t
            => sync_op[t] \in UnlockedReaders /\ Current(t).writes = {}

\* a registry is read without the lock while another thread is writing it
C34_ReadDuringWrite ==
    \E t, u \in SyncThreads : \E registry \in Registries :
        /\ registry \in Current(t).reads
        /\ lock_owner[GuardOf(registry)] = u
        /\ registry \in Current(u).writes

\* a thread stands at `with lock:` and the lock is taken
Waiting(t) == Current(t).kind = "acq" /\ lock_owner[Current(t).lock] # "free"

\* a thread holds a lock
Holding(t) == \E l \in Locks : lock_owner[l] = t

\* a set of threads each waiting for a lock held inside the set
WaitCycle(S) ==
    /\ S # {}
    /\ \A t \in S : Waiting(t) /\ lock_owner[Current(t).lock] \in S

\* threads run as long as they can, and a thread that finds the lock free
\* again and again gets it
SyncFairness ==
    /\ \A t \in CentralThreads : WF_vars(SyncRun(t))
    /\ SF_vars(SyncRun("c_monitor"))

SpecSyncFair == Init /\ [][SyncNext]_vars /\ SyncFairness

C40_EdgeContention ==
    \E t, u \in EdgeThreads :
        /\ Waiting(t) /\ ~Holding(t)
        /\ lock_owner[Current(t).lock] = u
====
